---------------------------- MODULE Spec2Model ----------------------------
(***************************************************************************)
(* Streaming JSON extraction engine of src/main_app.py:                    *)
(*   extract_first_json_string_value_stream, fetch_first_station_id,       *)
(*   extract_first_number_stream_generic, extract_forecast_periods_stream. *)
(*                                                                         *)
(* A byte is a one-character string, a bytes object a sequence of bytes.   *)
(* Indices are Python's (0-based): At(t, i) is t[i], Slice(t, a, b) is     *)
(* t[a:b].  Python's None is the empty tuple <<>> and a value v is <<v>>.  *)
(***************************************************************************)
EXTENDS Integers, Sequences, FiniteSets, TLC

(***************************************************************************)
(* Bounds of the model.                                                    *)
(***************************************************************************)
\* The size asked of every read (256 in the code) and the buffer cap of the
\* three single-value extractors (4096 in the code), both scaled down so that
\* streams longer than a read and longer than the cap are explored.
ReadRequest == 28
MaxBuf == 40
\* The most bytes a read returns when the Byte Source cuts the stream freely.
ReadSize == 5
\* The most pieces a modelled single-value document is made of.
MaxPieces == 2
\* A small max_buf argument of extract_forecast_periods_stream.
SmallBuf == 48
\* The most period objects a modelled forecast document holds.
MaxObjects == 3
\* The most bytes of a text given to find_balanced_braces_stream on its own.
MaxText == 5
\* The most forecast periods of a list that application_mode cycles through.
MaxShown == 2
\* The period of the millisecond counter of time.ticks_ms(), in units of
\* 1000 ms (2^30 ms on the device), scaled down so that the counter wraps.
TicksPeriod == 8

(***************************************************************************)
(* Program constants.                                                      *)
(***************************************************************************)
DefaultMaxBuf == 4096
DefaultMaxNight == 3
DefaultMaxDay == 7
\* the duration of a long press, 2000 ms, in units of 1000 ms
LongPress == 2
\* the seconds a screen of the display cycle stays, the seconds before "Then",
\* before the second part, and after it
SwitchWait == 10
ThenWait == 4
SecondWait == 2
RestWait == 4
\* WIFI_MAX_ATTEMPTS
WIFI_MAX_ATTEMPTS == 3
\* the seconds counted down before setup mode is entered
CountdownFrom == 5

(***************************************************************************)
(* bytes helpers                                                           *)
(***************************************************************************)
Min(S) == CHOOSE x \in S : \A y \in S : x <= y
Max(S) == CHOOSE x \in S : \A y \in S : x >= y

At(t, i) == t[i + 1]
Slice(t, a, b) == SubSeq(t, a + 1, b)
From(t, a) == SubSeq(t, a + 1, Len(t))

\* t[-n:] for n > 0
LastBytes(t, n) == IF Len(t) > n THEN SubSeq(t, Len(t) - n + 1, Len(t)) ELSE t

StartsAt(t, p, i) ==
    /\ i >= 0
    /\ i + Len(p) <= Len(t)
    /\ \A k \in 1..Len(p) : t[i + k] = p[k]

\* t.find(p, from)
Find(t, p, from) ==
    LET c == {i \in from..(Len(t) - Len(p)) : StartsAt(t, p, i)}
    IN  IF c = {} THEN -1 ELSE Min(c)

\* t.rfind(p, lo, hi)
RFind(t, p, lo, hi) ==
    LET c == {i \in lo..(hi - Len(p)) : StartsAt(t, p, i)}
    IN  IF c = {} THEN -1 ELSE Max(c)

NoneVal == <<>>
Some(v) == <<v>>


(***************************************************************************)
(* Regular expressions of the extractors, matched as ure matches them      *)
(* (leftmost match, greedy repetition).                                    *)
(***************************************************************************)
Quote == <<"\"">>
\* the key argument "k" of extract_first_json_string_value_stream, quoted
StringKey == <<"\"", "k", "\"">>
\* the pattern argument rb'"t"\s*:\s*([0-9]+(?:\.[0-9]+)?)' of
\* extract_first_number_stream_generic: its quoted key
NumberPatternKey == <<"\"", "t", "\"">>
\* key and the path looked for in fetch_first_station_id
IdKey == <<"\"", "i", "d", "\"", ":">>
StationsPath == <<"/", "s", "t", "a", "t", "i", "o", "n", "s", "/">>
Ws == {" ", "\t", "\n", "\r"}
Digits == {"0", "1", "2", "3", "4", "5", "6", "7", "8", "9"}
\* A byte that is not valid UTF-8 (0xFF).
BadByte == "xFF"

\* \s* from i: the index of the first byte at or after i that is not white space
SkipWs(t, i) == Min({j \in i..Len(t) : j = Len(t) \/ At(t, j) \notin Ws})

\* "key"\s*:\s* at i: the index just after it, or -1
KeyColon(t, key, i) ==
    IF ~StartsAt(t, key, i) THEN -1
    ELSE LET c == SkipWs(t, i + Len(key))
         IN  IF c < Len(t) /\ At(t, c) = ":" THEN SkipWs(t, c + 1) ELSE -1

\* "([^"]*)" or "([^"]+)" (least = 0 or 1) at j: <<group 1, end>> or <<>>
QuotedAt(t, j, least) ==
    IF j < 0 \/ j >= Len(t) \/ At(t, j) # "\"" THEN <<>>
    ELSE LET e == Find(t, Quote, j + 1)
         IN  IF e = -1 \/ e - (j + 1) < least THEN <<>>
             ELSE <<Slice(t, j + 1, e), e + 1>>

\* (\d+) at j: the index just after the longest run of digits, or -1
DigitsEnd(t, j) ==
    IF j < 0 \/ j >= Len(t) \/ At(t, j) \notin Digits THEN -1
    ELSE Min({e \in (j + 1)..Len(t) : e = Len(t) \/ At(t, e) \notin Digits})

\* regex.search(t) for '"key"\s*:\s*"([^"]*)"' (least = 0) or '...([^"]+)"'
\* (least = 1): <<start, group 1, end>> of the leftmost match, or <<>>
SearchString(t, key, least) ==
    LET hit(i) == QuotedAt(t, KeyColon(t, key, i), least)
        c == {i \in 0..(Len(t) - 1) : hit(i) # <<>>}
    IN  IF c = {} THEN <<>>
        ELSE LET i == Min(c) IN <<i, hit(i)[1], hit(i)[2]>>

\* regex.search(t) for '"key"\s*:\s*(\d+)': group 1, or <<>>
SearchDigits(t, key) ==
    LET hit(i) == DigitsEnd(t, KeyColon(t, key, i))
        c == {i \in 0..(Len(t) - 1) : hit(i) # -1}
    IN  IF c = {} THEN <<>>
        ELSE LET i == Min(c) IN <<Slice(t, KeyColon(t, key, i), hit(i))>>

\* regex.search(t) for '"key"\s*:\s*(true|false)': group 1, or <<>>
SearchBool(t, key) ==
    LET val(i) == LET j == KeyColon(t, key, i)
                  IN  IF j = -1 THEN <<>>
                      ELSE IF StartsAt(t, <<"t", "r", "u", "e">>, j)
                           THEN <<"t", "r", "u", "e">>
                      ELSE IF StartsAt(t, <<"f", "a", "l", "s", "e">>, j)
                           THEN <<"f", "a", "l", "s", "e">>
                      ELSE <<>>
        c == {i \in 0..(Len(t) - 1) : val(i) # <<>>}
    IN  IF c = {} THEN <<>> ELSE <<val(Min(c))>>

\* ([0-9]+(?:\.[0-9]+)?) at j: the index just after it, or -1
NumberEnd(t, j) ==
    LET e == DigitsEnd(t, j)
    IN  IF e = -1 THEN -1
        ELSE IF e < Len(t) /\ At(t, e) = "." /\ DigitsEnd(t, e + 1) # -1
             THEN DigitsEnd(t, e + 1)
        ELSE e

\* regex.search(t) for '"key"\s*:\s*([0-9]+(?:\.[0-9]+)?)': group 1, or <<>>
SearchNumber(t, key) ==
    LET hit(i) == NumberEnd(t, KeyColon(t, key, i))
        c == {i \in 0..(Len(t) - 1) : hit(i) # -1}
    IN  IF c = {} THEN <<>>
        ELSE LET i == Min(c) IN <<Slice(t, KeyColon(t, key, i), hit(i))>>

\* bytes.decode("utf-8") raises on a byte sequence that is not UTF-8
Decodable(t) == \A k \in 1..Len(t) : t[k] # BadByte

DigitValue(c) ==
    CASE c = "0" -> 0 [] c = "1" -> 1 [] c = "2" -> 2 [] c = "3" -> 3
      [] c = "4" -> 4 [] c = "5" -> 5 [] c = "6" -> 6 [] c = "7" -> 7
      [] c = "8" -> 8 [] c = "9" -> 9

\* int(b"...") of a run of digits
RECURSIVE ParseInt(_)
ParseInt(d) ==
    IF d = <<>> THEN 0
    ELSE 10 * ParseInt(SubSeq(d, 1, Len(d) - 1)) + DigitValue(d[Len(d)])

\* m / 10^k in lowest terms of ten: <<m, k>> with k = 0 or m not a multiple of 10
RECURSIVE Decimal(_, _)
Decimal(m, k) == IF k > 0 /\ m % 10 = 0 THEN Decimal(m \div 10, k - 1) ELSE <<m, k>>

\* float(b"<digits>") and float(b"<digits>.<digits>"): the number as a decimal
ParseFloat(d) ==
    LET dot == Find(d, <<".">>, 0)
    IN  IF dot = -1 THEN <<ParseInt(d), 0>>
        ELSE Decimal(ParseInt(Slice(d, 0, dot) \o From(d, dot + 1)), Len(d) - dot - 1)

\* a trim that keeps one byte too many: buf[-(max_buf + 1):]
TrimTailSlack(b, cap) == IF Len(b) > cap THEN LastBytes(b, cap + 1) ELSE b

\* the trim of the single-value extractors: buf[-max_buf:] when len(buf) > max_buf
TrimTail(b, cap) == IF Len(b) > cap THEN LastBytes(b, cap) ELSE b

\* "/stations/" in url
HasStationsPath(url) == Find(url, StationsPath, 0) # -1

\* url.rsplit("/", 1)[-1]
AfterLastSlash(url) == From(url, RFind(url, <<"/">>, 0, Len(url)) + 1)

(***************************************************************************)
(* extract_forecast_periods_stream: its literals and local functions       *)
(***************************************************************************)
PeriodsMarker == <<"\"", "p", "e", "r", "i", "o", "d", "s", "\"", ":", " ", "[">>
NumberKey == <<"\"", "n", "u", "m", "b", "e", "r", "\"", ":">>
NameKey == <<"\"", "n", "a", "m", "e", "\"">>
ShortForecastKey == <<"\"", "s", "h", "o", "r", "t", "F", "o", "r", "e", "c", "a", "s", "t", "\"">>
TemperatureKey == <<"\"", "t", "e", "m", "p", "e", "r", "a", "t", "u", "r", "e", "\"">>
IsDaytimeKey == <<"\"", "i", "s", "D", "a", "y", "t", "i", "m", "e", "\"">>

\* the loop of find_balanced_braces_stream from index i0, taken from one brace
\* to the next (the bytes between two braces change neither brace_count nor
\* started)
RECURSIVE BraceScan(_, _, _, _)
BraceScan(text, i0, brace_count, started) ==
    LET braces == {j \in i0..(Len(text) - 1) : At(text, j) \in {"{", "}"}}
        i == Min(braces)
    IN  IF braces = {} THEN -1
        ELSE IF At(text, i) = "{" THEN BraceScan(text, i + 1, brace_count + 1, TRUE)
        ELSE IF brace_count - 1 = 0 /\ started THEN i
        ELSE BraceScan(text, i + 1, brace_count - 1, started)

\* a brace matcher that stops at the first closing brace
FirstClosingBrace(text, start_idx) == Find(text, <<"}">>, start_idx)

find_balanced_braces_stream(text, start_idx) == BraceScan(text, start_idx, 0, FALSE)

\* the text of the match's group 1 decoded, "" when there is no match
extract_str(key, text) ==
    LET m == SearchString(text, key, 0) IN IF m # <<>> THEN m[2] ELSE <<>>

\* whether extract_str raises (the group is not valid UTF-8)
extract_str_raises(key, text) ==
    LET m == SearchString(text, key, 0) IN m # <<>> /\ ~Decodable(m[2])

\* an extract_int that gives 0 for a field it does not find
ExtractIntZero(key, text) ==
    LET m == SearchDigits(text, key) IN IF m # <<>> THEN Some(ParseInt(m[1])) ELSE Some(0)

extract_int(key, text) ==
    LET m == SearchDigits(text, key) IN IF m # <<>> THEN Some(ParseInt(m[1])) ELSE NoneVal

\* an extract_bool that takes a field it does not find for true
ExtractBoolDay(key, text) ==
    LET m == SearchBool(text, key) IN IF m # <<>> THEN m[1] = <<"t", "r", "u", "e">> ELSE TRUE

extract_bool(key, text) ==
    LET m == SearchBool(text, key) IN IF m # <<>> THEN m[1] = <<"t", "r", "u", "e">> ELSE FALSE

\* the record built from one closed object's text
PeriodRecord(period_text) ==
    [name |-> extract_str(NameKey, period_text),
     shortForecast |-> extract_str(ShortForecastKey, period_text),
     temperature |-> extract_int(TemperatureKey, period_text),
     isDaytime |-> extract_bool(IsDaytimeKey, period_text)]

\* the trim of the periods extractor: <<buf, idx>> after it
TrimPeriods(b, i, cap) ==
    IF Len(b) > cap THEN <<LastBytes(From(b, i), cap), 0>> ELSE <<b, i>>

\* the object start chosen for the anchor at num_idx, or -1
StartObj(b, i, num_idx) ==
    LET s == RFind(b, <<"{">>, 0, num_idx)
    IN  IF s = -1 \/ s < i THEN Find(b, <<"{">>, num_idx) ELSE s

\* the reset of idx at the end of an outer iteration
EndOfIteration(i, b) == IF i >= Len(b) THEN 0 ELSE i

\* a test that ends the extraction when either counter is at its cap
CapsReachedEither(dc, nc, maxd, maxn) == dc >= maxd \/ nc >= maxn

\* the test that ends the extraction once an object has been classified
CapsReached(dc, nc, maxd, maxn) == dc >= maxd /\ nc >= maxn

\* a classifier that still accepts a record when its counter is at the cap
ClassifyAtCap(isDaytime, dc, nc, maxd, maxn) ==
    IF isDaytime /\ dc <= maxd THEN <<dc + 1, nc, TRUE>>
    ELSE IF ~isDaytime /\ nc <= maxn THEN <<dc, nc + 1, TRUE>>
    ELSE <<dc, nc, FALSE>>

\* a classifier that counts a record before it tests the cap
ClassifyCountFirst(isDaytime, dc, nc, maxd, maxn) ==
    IF isDaytime THEN <<dc + 1, nc, dc < maxd>> ELSE <<dc, nc + 1, nc < maxn>>

\* the Record Classifier: <<day_count, night_count, should_append>>
Classify(isDaytime, dc, nc, maxd, maxn) ==
    IF isDaytime /\ dc < maxd THEN <<dc + 1, nc, TRUE>>
    ELSE IF ~isDaytime /\ nc < maxn THEN <<dc, nc + 1, TRUE>>
    ELSE <<dc, nc, FALSE>>

(***************************************************************************)
(* The documents a Byte Source delivers.                                   *)
(***************************************************************************)
\* {"number":<k>,"isDaytime":<true|false>,"name":"<k-th letter>"}
PeriodObject(k, day) ==
    <<"{">> \o NumberKey \o <<<<"1", "2", "3", "4", "5">>[k], ",">>
      \o IsDaytimeKey \o <<":">>
      \o (IF day THEN <<"t", "r", "u", "e">> ELSE <<"f", "a", "l", "s", "e">>)
      \o <<",">> \o NameKey \o <<":", "\"", <<"A", "B", "C", "D", "E">>[k], "\"", "}">>

\* the period objects of kinds[1..n], separated by commas
RECURSIVE PeriodObjects(_, _)
PeriodObjects(kinds, n) ==
    IF n = 0 THEN <<>>
    ELSE PeriodObjects(kinds, n - 1) \o (IF n > 1 THEN <<",">> ELSE <<>>)
           \o PeriodObject(n, kinds[n])

\* {"periods": [<objects>]}
ForecastDoc(kinds) ==
    <<"{">> \o PeriodsMarker \o PeriodObjects(kinds, Len(kinds)) \o <<"]", "}">>

Kinds == UNION {[1..n -> BOOLEAN] : n \in 0..MaxObjects}

\* the tail of the scenario document of spec.md section 8.5, from its "[" on
ScenarioTail ==
    <<"[", "{", "\"", "n", "u", "m", "b", "e", "r", "\"", ":", "1", ",",
      "\"", "i", "s", "D", "a", "y", "t", "i", "m", "e", "\"", ":", "t",
      "r", "u", "e", ",", "\"", "n", "a", "m", "e", "\"", ":", "\"", "T",
      "o", "d", "a", "y", "\"", ",", "\"", "t", "e", "m", "p", "e", "r",
      "a", "t", "u", "r", "e", "\"", ":", "7", "5", ",", "\"", "s", "h",
      "o", "r", "t", "F", "o", "r", "e", "c", "a", "s", "t", "\"", ":",
      "\"", "S", "u", "n", "n", "y", "\"", "}", ",", "{", "\"", "n", "u",
      "m", "b", "e", "r", "\"", ":", "2", ",", "\"", "i", "s", "D", "a",
      "y", "t", "i", "m", "e", "\"", ":", "f", "a", "l", "s", "e", ",",
      "\"", "n", "a", "m", "e", "\"", ":", "\"", "T", "o", "n", "i", "g",
      "h", "t", "\"", ",", "\"", "t", "e", "m", "p", "e", "r", "a", "t",
      "u", "r", "e", "\"", ":", "5", "5", ",", "\"", "s", "h", "o", "r",
      "t", "F", "o", "r", "e", "c", "a", "s", "t", "\"", ":", "\"", "C",
      "l", "e", "a", "r", "\"", "}", "]", "}">>

\* the scenario document as spec.md writes it: {"periods":[...]}
ScenarioCompact == <<"{", "\"", "p", "e", "r", "i", "o", "d", "s", "\"", ":">> \o ScenarioTail
\* the scenario document with the marker as the API sends it: {"periods": [...]}
ScenarioSpaced == <<"{", "\"", "p", "e", "r", "i", "o", "d", "s", "\"", ":", " ">> \o ScenarioTail

\* {"periods": [{"number":1,"name":"<0xFF>"}]}
BadNameDoc ==
    <<"{">> \o PeriodsMarker \o <<"{">> \o NumberKey \o <<"1", ",">> \o NameKey
      \o <<":", "\"", BadByte, "\"", "}", "]", "}">>

\* {"o":{"number":9,"name":"Z"},"periods": [{"number":1,"isDaytime":true,"name":"A"}]}
\* an object with a "number": key lies before the marker
PreambleDoc ==
    <<"{", "\"", "o", "\"", ":", "{">> \o NumberKey \o <<"9", ",">> \o NameKey
      \o <<":", "\"", "Z", "\"", "}", ",">> \o PeriodsMarker
      \o PeriodObject(1, TRUE) \o <<"]", "}">>

\* An object whose fields are present or absent as v says:
\* {"number":1[,"name":"N"][,"shortForecast":"S"][,"temperature":<75|-5>]
\*  [,"isDaytime":<true|false|null>]}
FieldObject(v) ==
    <<"{">> \o NumberKey \o <<"1">>
      \o (IF v.name THEN <<",">> \o NameKey \o <<":", "\"", "N", "\"">> ELSE <<>>)
      \o (IF v.short THEN <<",">> \o ShortForecastKey \o <<":", "\"", "S", "\"">> ELSE <<>>)
      \o (CASE v.temp = "75" -> <<",">> \o TemperatureKey \o <<":", "7", "5">>
            [] v.temp = "-5" -> <<",">> \o TemperatureKey \o <<":", "-", "5">>
            [] OTHER -> <<>>)
      \o (CASE v.day = "true" -> <<",">> \o IsDaytimeKey \o <<":", "t", "r", "u", "e">>
            [] v.day = "false" -> <<",">> \o IsDaytimeKey \o <<":", "f", "a", "l", "s", "e">>
            [] v.day = "null" -> <<",">> \o IsDaytimeKey \o <<":", "n", "u", "l", "l">>
            [] OTHER -> <<>>)
      \o <<"}">>

FieldVariants ==
    [name : BOOLEAN, short : BOOLEAN, temp : {"none", "75", "-5"},
     day : {"true", "false", "none", "null"}]

\* {"number":2,"name":"B"}: an object without isDaytime
PlainObject == <<"{">> \o NumberKey \o <<"2", ",">> \o NameKey \o <<":", "\"", "B", "\"", "}">>

\* {"periods": [<FieldObject(v)>,<second object>]}: the second object is
\* {"number":2,"isDaytime":true,"name":"B"} (plain = FALSE) or PlainObject
FieldDoc(v, plain) ==
    <<"{">> \o PeriodsMarker \o FieldObject(v) \o <<",">>
      \o (IF plain THEN PlainObject ELSE PeriodObject(2, TRUE)) \o <<"]", "}">>

\* {"periods": [{"g":{"x":1},"number":1,"isDaytime":true,"name":"A"}]}
\* a nested object stands before the "number": key
NestedBeforeDoc ==
    <<"{">> \o PeriodsMarker
      \o <<"{", "\"", "g", "\"", ":", "{", "\"", "x", "\"", ":", "1", "}", ",">>
      \o NumberKey \o <<"1", ",">> \o IsDaytimeKey \o <<":", "t", "r", "u", "e", ",">>
      \o NameKey \o <<":", "\"", "A", "\"", "}", "]", "}">>

\* {"periods": [{"number":1,"isDaytime":true,"g":{"x":1},"name":"A"}]}
\* a nested object stands after the "number": key
NestedAfterDoc ==
    <<"{">> \o PeriodsMarker \o <<"{">>
      \o NumberKey \o <<"1", ",">> \o IsDaytimeKey \o <<":", "t", "r", "u", "e", ",">>
      \o <<"\"", "g", "\"", ":", "{", "\"", "x", "\"", ":", "1", "}", ",">>
      \o NameKey \o <<":", "\"", "A", "\"", "}", "]", "}">>

ObjectDocs ==
    {FieldDoc(v, plain) : v \in FieldVariants, plain \in BOOLEAN}
      \cup {NestedBeforeDoc, NestedAfterDoc}

ForecastDocs ==
    {ForecastDoc(k) : k \in Kinds}
      \cup {ScenarioCompact, ScenarioSpaced, BadNameDoc, PreambleDoc}

\* <<max_day_periods, max_night_periods>>: the defaults, the scenario's, none
CapPairs == {<<DefaultMaxDay, DefaultMaxNight>>, <<1, 1>>, <<0, 0>>}

\* plan = 0: every read returns any number of bytes from 1 to ReadSize, and the
\* source may end the stream early; plan = n > 0: every read returns n bytes
\* (the last one what is left)
Plans == {0, 1, 7, ReadRequest}

RECURSIVE Repeat(_, _)
Repeat(c, n) == IF n <= 0 THEN <<>> ELSE <<c>> \o Repeat(c, n - 1)

\* the concatenation of the pieces ps[1..n]
RECURSIVE Concat(_, _)
Concat(ps, n) == IF n = 0 THEN <<>> ELSE Concat(ps, n - 1) \o ps[n]

\* every document made of at most MaxPieces of the pieces P
DocsOf(P) == {Concat(ps, Len(ps)) : ps \in UNION {[1..n -> P] : n \in 0..MaxPieces}}

\* the bodies extract_first_json_string_value_stream(stream, "k") reads
StringPieces ==
    {<<"x">>,
     StringKey \o <<":", "\"", "a", "\"">>,              \* "k":"a"
     StringKey \o <<" ", ":", " ", "\"", "b", "\"">>,    \* "k" : "b"
     StringKey \o <<":", "\"">>,                         \* "k":"
     StringKey \o <<":", "\"", BadByte, "\"">>,          \* "k":"<0xFF>"
     \* "k":"cc...c", MaxBuf bytes long
     StringKey \o <<":", "\"">> \o Repeat("c", MaxBuf - 6) \o Quote}

\* the bodies extract_first_number_stream_generic reads
NumberPieces ==
    {<<"x">>,
     NumberPatternKey \o <<":", "7">>,                   \* "t":7
     NumberPatternKey \o <<":", " ", "7", "5">>,         \* "t": 75
     NumberPatternKey \o <<":", "7", ".", "2", "5">>,    \* "t":7.25
     NumberPatternKey \o <<":", "n">>,                   \* "t":n
     NumberPatternKey \o <<":">> \o Repeat(" ", MaxBuf - 5) \o <<"4">>}

\* the body fetch_first_station_id reads
StationPieces ==
    {<<"x">>,
     IdKey \o <<"\"", "a", "\"">>,                              \* "id":"a"
     IdKey \o Quote \o StationsPath \o <<"K", "\"">>,           \* "id":"/stations/K"
     IdKey \o Quote \o StationsPath \o <<"L", "\"">>,           \* "id":"/stations/L"
     IdKey \o <<"\"", "b">>,                                    \* "id":"b
     IdKey \o <<"\"", BadByte, "\"">>,                          \* "id":"<0xFF>"
     Repeat("y", MaxBuf - 8)}

(***************************************************************************)
(* State                                                                   *)
(***************************************************************************)
VARIABLES
    fn,                 \* the extractor called
    stream,             \* the bytes of the response body
    plan,               \* how the Byte Source cuts the stream into reads
    max_day_periods, max_night_periods, max_buf,    \* arguments
    pos,                \* bytes the Byte Source has delivered in this call
    eos,                \* the Byte Source has signalled the end of the stream
    pc,                 \* "idle", "read", "scan" (inner loop) or "done"
    calls,              \* calls started
    prev,               \* <<result, exc>> of the previous call
    buf, idx, day_count, night_count, in_periods, periods,  \* locals
    result,             \* the value returned
    exc,                \* the exception that left the call, "" when none
    gw_pc,              \* get_weather_data: "none" (not called), "entry",
                        \* "fetch", "extract" or "returned"
    metadata,           \* get_weather_data: its metadata
    forecasts,          \* get_weather_data: the list returned
    gw_exc,             \* get_weather_data: the exception that left it, "" when none
    expected_checksums, \* update mode: the file names of the checksums received
    disk,               \* update mode: the uploaded file of each name: "good"
                        \* (its SHA-256 is the expected one), "bad" or "missing"
    final,              \* update mode: the file at each final name: "old",
                        \* "new" (renamed from the upload) or "none"
    response,           \* update mode: the last response sent
    press_time, long_press_triggered, start_update_requested,   \* globals
    ticks,              \* time.ticks_ms(), in units of 1000 ms
    held,               \* time since press_time was recorded, in units of
                        \* 1000 ms, -1 when no press is recorded
    pin,                \* setup_sw.value(): 0 pressed, 1 released
    pending,            \* edges of the pin whose handler has not run yet
    loop_pc,            \* application_mode: "off" (not running), "test",
                        \* "clear", "call", "body", "update" (it has
                        \* called start_update_mode) or "reset" (an
                        \* exception has left it, the device restarts)
    app_forecasts,      \* application_mode: forecasts, each period TRUE when
                        \* it has a forecast2_short
    cycle_index, cycle_length, forecast_phase, forecast2,   \* its locals
    switch_age,         \* time.time() - last_forecast_switch, up to SwitchWait
    phase_age,          \* time.time() - phase_start_time, up to ThenWait
    index,              \* the index last used in forecasts[...] by
                        \* application_mode, -1 for none
    shown,              \* what the display shows: "off", "start", "sun",
                        \* "period", "then", "second" or "na"
    boot_pc,            \* the main program: "off" (not modelled), "connect"
                        \* (in the Wi-Fi loop), "select" (after it),
                        \* "countdown", "setup" or "app"
    wifi_current_attempt,
    attempts,           \* the calls of connect_to_wifi made so far
    connected,          \* is_connected_to_wifi()
    network,            \* "never" when the network never connects, else "may"
    has_latlon,         \* settings has lat and lon
    count               \* the seconds left of the countdown

inputs == <<fn, stream, plan, max_day_periods, max_night_periods, max_buf>>
locals == <<buf, idx, day_count, night_count, in_periods, periods>>
source == <<pos, eos>>
weather == <<gw_pc, metadata, forecasts, gw_exc>>
update == <<expected_checksums, disk, final, response>>
button == <<press_time, long_press_triggered, start_update_requested, ticks, held,
            pin, pending, loop_pc>>
cycle == <<app_forecasts, cycle_index, cycle_length, forecast_phase, forecast2,
           switch_age, phase_age, index, shown>>
startup == <<boot_pc, wifi_current_attempt, attempts, connected, network,
             has_latlon, count>>
device == <<update, button, cycle, startup>>
vars == <<inputs, source, pc, calls, prev, locals, result, exc, weather, device>>

\* a start of call that keeps the counters of the call before
FreshLeak ==
    [buf |-> <<>>, idx |-> 0, day_count |-> day_count, night_count |-> night_count,
     in_periods |-> FALSE, periods |-> <<>>]

\* the state every call starts from
Fresh ==
    [buf |-> <<>>, idx |-> 0, day_count |-> 0, night_count |-> 0,
     in_periods |-> FALSE, periods |-> <<>>]

\* the names of the files a software update uploads
UpdateNames == {"main_app.py.new", "lib/a.py.new", "b.py.new"}

\* no response has been sent
NoResponse == [handler |-> "none", status |-> "", code |-> 0]

\* the device is not in update mode
NoUpdate ==
    /\ expected_checksums = {}
    /\ disk = [n \in UpdateNames |-> "missing"]
    /\ final = [n \in UpdateNames |-> "none"]
    /\ response = NoResponse

\* the button is not touched and application_mode does not run
NoButton ==
    /\ press_time = NoneVal /\ long_press_triggered = FALSE
    /\ start_update_requested = FALSE
    /\ ticks = 0 /\ held = -1 /\ pin = 1 /\ pending = 0 /\ loop_pc = "off"

\* the display cycle does not run
NoCycle ==
    /\ app_forecasts = <<>> /\ cycle_index = 0 /\ cycle_length = 0
    /\ forecast_phase = 0 /\ forecast2 = FALSE
    /\ switch_age = 0 /\ phase_age = 0 /\ index = -1 /\ shown = "off"

\* the start-up is not modelled
NoStartup ==
    /\ boot_pc = "off" /\ wifi_current_attempt = 1 /\ attempts = 0
    /\ connected = FALSE /\ network = "never" /\ has_latlon = FALSE /\ count = 0

\* the device around the extractors is not modelled
NoDevice == NoUpdate /\ NoButton /\ NoCycle /\ NoStartup

\* no extractor has been called
InitLocals ==
    /\ pos = 0 /\ eos = FALSE
    /\ pc = "idle" /\ calls = 0 /\ prev = <<>>
    /\ buf = <<>> /\ idx = 0 /\ day_count = 0 /\ night_count = 0
    /\ in_periods = FALSE /\ periods = <<>>
    /\ result = NoneVal /\ exc = ""

InitCommon == InitLocals /\ NoDevice

\* the metadata of a call that has none: None
NoMetadata ==
    [type |-> "NoneType", station_id |-> FALSE, forecast_url |-> FALSE, hourly_url |-> FALSE]

\* get_weather_data is not called
NoCaller ==
    /\ gw_pc = "none" /\ metadata = NoMetadata /\ forecasts = <<>> /\ gw_exc = ""

InitPeriods ==
    /\ NoCaller
    /\ fn = "periods"
    /\ stream \in ForecastDocs
    /\ plan \in Plans
    /\ \E c \in CapPairs : max_day_periods = c[1] /\ max_night_periods = c[2]
    /\ max_buf \in {DefaultMaxBuf, SmallBuf}
    /\ InitCommon

(***************************************************************************)
(* The call and the Byte Source                                            *)
(***************************************************************************)
\* A call starts: the first one, or a second one on the same document and
\* the same chunking once the first has returned.
Call ==
    /\ \/ pc = "idle"
       \/ pc = "done" /\ calls = 1 /\ plan # 0
    /\ calls' = calls + 1
    /\ prev' = IF pc = "done" THEN <<result, exc>> ELSE prev
    /\ pc' = "read"
    /\ pos' = 0 /\ eos' = FALSE
    /\ buf' = Fresh.buf /\ idx' = Fresh.idx
    /\ day_count' = Fresh.day_count /\ night_count' = Fresh.night_count
    /\ in_periods' = Fresh.in_periods /\ periods' = Fresh.periods
    /\ result' = NoneVal /\ exc' = ""
    /\ UNCHANGED <<inputs, weather, device>>

\* the chunks read(ReadRequest) can return now; <<>> is the end of the stream
Chunks ==
    LET rem == Len(stream) - pos
        sizes == IF rem = 0 THEN {}
                 ELSE IF plan = 0 THEN 1..(IF rem < ReadSize THEN rem ELSE ReadSize)
                 ELSE {IF rem < plan THEN rem ELSE plan}
    IN  {Slice(stream, pos, pos + n) : n \in sizes}
          \cup (IF rem = 0 \/ plan = 0 THEN {<<>>} ELSE {})

\* the bytes the Byte Source has delivered in this call
Delivered == Slice(stream, 0, pos)

(***************************************************************************)
(* extract_forecast_periods_stream                                         *)
(***************************************************************************)
\* one iteration of the outer loop up to the inner loop: read, append, trim
ReadPeriods ==
    /\ fn = "periods" /\ pc = "read"
    /\ \E chunk \in Chunks :
         /\ pos' = pos + Len(chunk)
         /\ eos' = (chunk = <<>>)
         /\ IF chunk = <<>>
            THEN /\ pc' = "done"
                 /\ result' = periods
                 /\ UNCHANGED <<buf, idx>>
            ELSE LET b == buf \o chunk
                     t == TrimPeriods(b, idx, max_buf)
                 IN  /\ buf' = t[1]
                     /\ idx' = t[2]
                     /\ pc' = "scan"
                     /\ UNCHANGED result
    /\ UNCHANGED <<inputs, calls, prev, day_count, night_count, in_periods, periods, exc, weather, device>>

\* an inner loop that forgets to move idx past the object
AfterObjectStale(end_obj) == idx

\* idx once an object has been classified: one past its closing brace
AfterObject(end_obj) == end_obj + 1

\* the inner loop breaks: the end of the outer iteration
BreakScan(i, inp) ==
    /\ idx' = EndOfIteration(i, buf)
    /\ in_periods' = inp
    /\ pc' = "read"
    /\ UNCHANGED <<day_count, night_count, periods, result, exc>>

\* one iteration of the inner loop
ScanPeriods ==
    /\ fn = "periods" /\ pc = "scan"
    /\ LET periods_start == Find(buf, PeriodsMarker, idx)
           i1 == IF in_periods THEN idx ELSE periods_start + Len(PeriodsMarker)
           num_idx == Find(buf, NumberKey, i1)
           start_obj == StartObj(buf, i1, num_idx)
           end_obj == find_balanced_braces_stream(buf, start_obj)
           period_text == Slice(buf, start_obj, end_obj + 1)
           c == Classify(extract_bool(IsDaytimeKey, period_text), day_count,
                         night_count, max_day_periods, max_night_periods)
           out == IF c[3] THEN Append(periods, PeriodRecord(period_text)) ELSE periods
       IN  IF ~in_periods /\ periods_start = -1 THEN BreakScan(idx, FALSE)
           ELSE IF num_idx = -1 THEN BreakScan(i1, TRUE)
           ELSE IF start_obj = -1 THEN BreakScan(i1, TRUE)
           ELSE IF end_obj = -1 THEN BreakScan(i1, TRUE)
           ELSE IF \/ extract_str_raises(NameKey, period_text)
                   \/ extract_str_raises(ShortForecastKey, period_text)
           THEN /\ pc' = "done" /\ exc' = "UnicodeError" /\ idx' = i1
                /\ in_periods' = TRUE
                /\ UNCHANGED <<day_count, night_count, periods, result>>
           ELSE /\ day_count' = c[1]
                /\ night_count' = c[2]
                /\ periods' = out
                /\ in_periods' = TRUE
                /\ exc' = exc
                /\ IF CapsReached(c[1], c[2], max_day_periods, max_night_periods)
                   THEN pc' = "done" /\ result' = out /\ idx' = i1
                   ELSE pc' = "scan" /\ result' = result /\ idx' = AfterObject(end_obj)
    /\ UNCHANGED <<inputs, source, calls, prev, buf, weather, device>>

NextPeriods == Call \/ ReadPeriods \/ ScanPeriods

SpecPeriods == InitPeriods /\ [][NextPeriods]_vars

\* find_balanced_braces_stream on its own: text is held in stream and
\* start_idx in idx
BraceTexts == UNION {[1..n -> {"{", "}", "x"}] : n \in 0..MaxText}

InitBraces ==
    /\ NoCaller
    /\ fn = "braces"
    /\ stream \in BraceTexts
    /\ idx \in 0..Len(stream)
    /\ plan = 0 /\ max_day_periods = 0 /\ max_night_periods = 0 /\ max_buf = DefaultMaxBuf
    /\ pos = 0 /\ eos = FALSE
    /\ pc = "idle" /\ calls = 0 /\ prev = <<>>
    /\ buf = <<>> /\ day_count = 0 /\ night_count = 0
    /\ in_periods = FALSE /\ periods = <<>>
    /\ result = NoneVal /\ exc = ""
    /\ NoDevice

\* the call find_balanced_braces_stream(text, start_idx) and its return
CallBraces ==
    /\ fn = "braces" /\ pc = "idle"
    /\ pc' = "done"
    /\ calls' = calls + 1
    /\ result' = Some(find_balanced_braces_stream(stream, idx))
    /\ UNCHANGED <<inputs, source, prev, locals, exc, weather, device>>

NextBraces == CallBraces

SpecBraces == InitBraces /\ [][NextBraces]_vars

\* extract_forecast_periods_stream with its default max_buf on documents whose
\* objects lack fields or hold nested objects, in reads of fixed sizes
InitObjects ==
    /\ NoCaller
    /\ fn = "periods"
    /\ stream \in ObjectDocs
    /\ plan \in {7, ReadRequest}
    /\ \E c \in {<<DefaultMaxDay, DefaultMaxNight>>, <<1, 1>>} :
         max_day_periods = c[1] /\ max_night_periods = c[2]
    /\ max_buf = DefaultMaxBuf
    /\ InitCommon

SpecObjects == InitObjects /\ [][NextPeriods]_vars

(***************************************************************************)
(* extract_first_json_string_value_stream                                  *)
(***************************************************************************)
\* a search whose pattern accepts an empty value: "key"\s*:\s*"([^"]*)"
StringSearchEmpty(b) ==
    LET m == SearchString(b, StringKey, 0)
    IN  IF m = <<>> THEN <<"read", NoneVal, "">>
        ELSE IF Decodable(m[2]) THEN <<"done", Some(m[2]), "">>
        ELSE <<"done", NoneVal, "UnicodeError">>

\* what follows the trim in one iteration: <<pc, result, exc>>
StringSearch(b) ==
    LET m == SearchString(b, StringKey, 1)
    IN  IF m = <<>> THEN <<"read", NoneVal, "">>
        ELSE IF Decodable(m[2]) THEN <<"done", Some(m[2]), "">>
        ELSE <<"done", NoneVal, "UnicodeError">>

ReadString ==
    /\ fn = "string" /\ pc = "read"
    /\ \E chunk \in Chunks :
         /\ pos' = pos + Len(chunk)
         /\ eos' = (chunk = <<>>)
         /\ IF chunk = <<>>
            THEN pc' = "done" /\ result' = NoneVal /\ exc' = "" /\ buf' = buf
            ELSE LET b == TrimTail(buf \o chunk, max_buf)
                     r == StringSearch(b)
                 IN  buf' = b /\ pc' = r[1] /\ result' = r[2] /\ exc' = r[3]
    /\ UNCHANGED <<inputs, calls, prev, idx, day_count, night_count, in_periods, periods, weather, device>>

(***************************************************************************)
(* extract_first_number_stream_generic                                     *)
(***************************************************************************)
\* what follows the trim in one iteration: <<pc, result, exc>>
NumberSearch(b) ==
    LET m == SearchNumber(b, NumberPatternKey)
    IN  IF m = <<>> THEN <<"read", NoneVal, "">>
        ELSE <<"done", Some(ParseFloat(m[1])), "">>

ReadNumber ==
    /\ fn = "number" /\ pc = "read"
    /\ \E chunk \in Chunks :
         /\ pos' = pos + Len(chunk)
         /\ eos' = (chunk = <<>>)
         /\ IF chunk = <<>>
            THEN pc' = "done" /\ result' = NoneVal /\ exc' = "" /\ buf' = buf
            ELSE LET b == TrimTail(buf \o chunk, max_buf)
                     r == NumberSearch(b)
                 IN  buf' = b /\ pc' = r[1] /\ result' = r[2] /\ exc' = r[3]
    /\ UNCHANGED <<inputs, calls, prev, idx, day_count, night_count, in_periods, periods, weather, device>>

(***************************************************************************)
(* fetch_first_station_id (the read loop over r.raw)                       *)
(***************************************************************************)
\* a search that leaves the buffer as it is when it rejects a value
StationSearchKeep(b) ==
    LET i == Find(b, IdKey, 0)
        start_quote == Find(b, Quote, i + Len(IdKey))
        end_quote == Find(b, Quote, start_quote + 1)
        url == Slice(b, start_quote + 1, end_quote)
    IN  IF i = -1 THEN <<"read", NoneVal, "", b>>
        ELSE IF start_quote = -1 THEN <<"read", NoneVal, "", b>>
        ELSE IF end_quote = -1 THEN <<"read", NoneVal, "", b>>
        ELSE IF ~Decodable(url) THEN <<"done", NoneVal, "UnicodeError", b>>
        ELSE IF HasStationsPath(url) THEN <<"done", Some(AfterLastSlash(url)), "", b>>
        ELSE <<"read", NoneVal, "", b>>

\* what follows the trim in one iteration: <<pc, result, exc, buf>>
StationSearch(b) ==
    LET i == Find(b, IdKey, 0)
        start_quote == Find(b, Quote, i + Len(IdKey))
        end_quote == Find(b, Quote, start_quote + 1)
        url == Slice(b, start_quote + 1, end_quote)
    IN  IF i = -1 THEN <<"read", NoneVal, "", b>>
        ELSE IF start_quote = -1 THEN <<"read", NoneVal, "", b>>
        ELSE IF end_quote = -1 THEN <<"read", NoneVal, "", b>>
        ELSE IF ~Decodable(url) THEN <<"done", NoneVal, "UnicodeError", b>>
        ELSE IF HasStationsPath(url) THEN <<"done", Some(AfterLastSlash(url)), "", b>>
        ELSE <<"read", NoneVal, "", From(b, end_quote + 1)>>

ReadStation ==
    /\ fn = "station" /\ pc = "read"
    /\ \E chunk \in Chunks :
         /\ pos' = pos + Len(chunk)
         /\ eos' = (chunk = <<>>)
         /\ IF chunk = <<>>
            THEN pc' = "done" /\ result' = NoneVal /\ exc' = "" /\ buf' = buf
            ELSE LET r == StationSearch(TrimTail(buf \o chunk, max_buf))
                 IN  buf' = r[4] /\ pc' = r[1] /\ result' = r[2] /\ exc' = r[3]
    /\ UNCHANGED <<inputs, calls, prev, idx, day_count, night_count, in_periods, periods, weather, device>>

(***************************************************************************)
(* Specifications                                                          *)
(***************************************************************************)
InitSingle(f, docs) ==
    /\ NoCaller
    /\ fn = f
    /\ stream \in docs
    /\ plan \in Plans
    /\ max_day_periods = 0 /\ max_night_periods = 0
    /\ max_buf = MaxBuf
    /\ InitCommon

InitString == InitSingle("string", DocsOf(StringPieces))
InitNumber == InitSingle("number", DocsOf(NumberPieces))
InitStation == InitSingle("station", DocsOf(StationPieces))

NextString == Call \/ ReadString
NextNumber == Call \/ ReadNumber
NextStation == Call \/ ReadStation
Next == Call \/ ReadString \/ ReadNumber \/ ReadStation \/ ReadPeriods \/ ScanPeriods

SpecString == InitString /\ [][NextString]_vars
SpecNumber == InitNumber /\ [][NextNumber]_vars
SpecStation == InitStation /\ [][NextStation]_vars
\* every extractor
Spec == (InitString \/ InitNumber \/ InitStation \/ InitPeriods) /\ [][Next]_vars
\* a step is possible: a call can start, or the loop of a call is running
Running == pc \in {"idle", "read", "scan"} \/ (pc = "done" /\ calls = 1 /\ plan # 0)
\* Running is the enabling condition of a step that changes the state
RunningIsEnabled == Running <=> ENABLED <<Next>>_vars
\* Every extractor, run by an interpreter that goes on while a step is
\* possible: weak fairness of Next, with ENABLED <<Next>>_vars written out as
\* the state predicate Running.
SpecLive == Spec /\ ([]<>(~Running) \/ []<><<Next>>_vars)

(***************************************************************************)
(* get_weather_data                                                        *)
(***************************************************************************)
NA == <<"N", "/", "A">>
NoForecast == <<"N", "o", " ", "F", "o", "r", "e", "c", "a", "s", "t">>
ThenSeparator == <<" ", "t", "h", "e", "n", " ">>

\* the placeholder period returned when the metadata cannot be refreshed, and
\* the one that stands for an empty extraction
PlaceholderShort ==
    [name |-> NA, shortForecast |-> NA, simpleForecast |-> NA,
     temperature |-> NoneVal, isDaytime |-> NoneVal]

\* the placeholder period of the two exception handlers
PlaceholderFull ==
    [name |-> NA, shortForecast |-> NA, forecast1 |-> NA, forecast2 |-> NoneVal,
     simpleForecast |-> NA, temperature |-> NoneVal, isDaytime |-> NoneVal]

\* str.strip()
Strip(t) ==
    LET keep == {k \in 1..Len(t) : t[k] \notin Ws}
    IN  IF keep = {} THEN <<>> ELSE SubSeq(t, Min(keep), Max(keep))

\* split_forecast_text(text): <<first part, second part or None>>
split_forecast_text(text) ==
    LET i == Find(text, ThenSeparator, 0)
    IN  IF text = <<>> THEN <<<<>>, NoneVal>>
        ELSE IF i # -1
             THEN <<Strip(Slice(text, 0, i)), Some(Strip(From(text, i + Len(ThenSeparator))))>>
        ELSE <<Strip(text), NoneVal>>

\* simplify_forecast(forecast) of an empty forecast; the period objects of the
\* documents get_weather_data is given here carry no shortForecast
simplify_forecast(forecast) == CASE forecast = <<>> -> NoForecast

\* the fields the post-processing loop adds to one extracted period
PostProcess(period) ==
    LET parts == split_forecast_text(period.shortForecast)
    IN  [name |-> period.name, shortForecast |-> period.shortForecast,
         temperature |-> period.temperature, isDaytime |-> period.isDaytime,
         forecast1 |-> parts[1], forecast2 |-> parts[2],
         simpleForecast |-> simplify_forecast(period.shortForecast),
         forecast1_short |-> simplify_forecast(parts[1]),
         forecast2_short |-> IF parts[2] # NoneVal
                             THEN Some(simplify_forecast(parts[2][1])) ELSE NoneVal]

\* an empty list of periods left as it is
OrPlaceholderMissing(ps) == ps

\* if not periods: periods = [placeholder]
OrPlaceholder(ps) == IF ps = <<>> THEN <<PlaceholderShort>> ELSE ps

\* the debug loop reads period['forecast1'], period['forecast1_short'] and
\* period['forecast2'] of every period: a KeyError when a key is missing
PrintRaises(ps) ==
    \E n \in DOMAIN ps :
        {"forecast1", "forecast1_short", "forecast2"} \ DOMAIN ps[n] # {}

\* the handler of the inner try: <<periods, exception that goes on>>
InnerExcept(e) == <<<<PlaceholderFull>>, "">>

\* the handler of the outer try: <<list returned, exception that leaves>>
OuterExcept(e) == <<<<PlaceholderFull>>, "">>

\* the inner try once r.raw has been handed to extract_forecast_periods_stream,
\* which returned res or raised ex; close_raises: r.close() raises
\* <<periods, exception that goes on>>
AfterExtraction(res, ex, close_raises) ==
    LET ps == OrPlaceholder([n \in DOMAIN res |-> PostProcess(res[n])])
    IN  IF ex # "" THEN InnerExcept(ex)
        ELSE IF close_raises THEN InnerExcept("OSError")
        ELSE IF PrintRaises(ps) THEN InnerExcept("KeyError")
        ELSE <<ps, "">>

\* what get_nws_metadata returns: an error string, None, or a dict with a
\* station_id and the two URLs of the point data, each of which may be None
MetadataRefreshed ==
    [type : {"str", "NoneType"}, station_id : {FALSE}, forecast_url : {FALSE},
     hourly_url : {FALSE}]
      \cup [type : {"dict"}, station_id : {TRUE}, forecast_url : BOOLEAN,
            hourly_url : BOOLEAN]

\* the metadata argument: None, a dict (a field is TRUE when it is set), or an
\* error string of get_nws_metadata
MetadataArgs ==
    {NoMetadata,
     [type |-> "str", station_id |-> FALSE, forecast_url |-> FALSE, hourly_url |-> FALSE],
     [type |-> "dict", station_id |-> TRUE, forecast_url |-> TRUE, hourly_url |-> TRUE],
     [type |-> "dict", station_id |-> FALSE, forecast_url |-> TRUE, hourly_url |-> TRUE]}

\* the response bodies the forecast request is answered with
WeatherDocs ==
    {ForecastDoc(k) : k \in Kinds} \cup {BadNameDoc, <<>>}

GwReturn(out) ==
    /\ gw_pc' = "returned"
    /\ forecasts' = out[1]
    /\ gw_exc' = out[2]
    /\ UNCHANGED metadata

\* the validation of the cached metadata and its refresh
GwValidate ==
    /\ gw_pc = "entry"
    /\ IF metadata.type = "str"
       THEN GwReturn(OuterExcept("AttributeError"))
       ELSE IF ~metadata.station_id \/ ~metadata.forecast_url \/ ~metadata.hourly_url
       THEN \E m \in MetadataRefreshed :
              IF m.type = "str" THEN GwReturn(<<<<PlaceholderShort>>, "">>)
              ELSE IF m.type = "NoneType" THEN GwReturn(<<<<PlaceholderShort>>, "">>)
              ELSE /\ metadata' = m
                   /\ gw_pc' = "fetch"
                   /\ UNCHANGED <<forecasts, gw_exc>>
       ELSE gw_pc' = "fetch" /\ UNCHANGED <<metadata, forecasts, gw_exc>>
    /\ UNCHANGED <<inputs, source, pc, calls, prev, locals, result, exc, device>>

\* urequests.get(forecast_url, headers=headers): it raises, or answers
GwFetch ==
    /\ gw_pc = "fetch"
    /\ \E raises \in BOOLEAN :
         /\ ~metadata.forecast_url => raises
         /\ IF raises
            THEN LET h == InnerExcept("OSError")
                 IN  IF h[2] # "" THEN GwReturn(OuterExcept(h[2])) ELSE GwReturn(h)
            ELSE gw_pc' = "extract" /\ UNCHANGED <<metadata, forecasts, gw_exc>>
    /\ UNCHANGED <<inputs, source, pc, calls, prev, locals, result, exc, device>>

\* periods = extract_forecast_periods_stream(r.raw)
GwExtract == gw_pc = "extract" /\ pc = "idle" /\ Call

\* the rest of the inner try, and the return
GwFinish ==
    /\ gw_pc = "extract" /\ pc = "done"
    /\ \E close_raises \in BOOLEAN :
         LET h == AfterExtraction(result, exc, close_raises)
         IN  IF h[2] # "" THEN GwReturn(OuterExcept(h[2])) ELSE GwReturn(h)
    /\ UNCHANGED <<inputs, source, pc, calls, prev, locals, result, exc, device>>

InitWeather ==
    /\ fn = "periods"
    /\ stream \in WeatherDocs
    /\ plan \in Plans
    /\ max_day_periods = DefaultMaxDay /\ max_night_periods = DefaultMaxNight
    /\ max_buf = DefaultMaxBuf
    /\ InitCommon
    /\ gw_pc = "entry" /\ metadata \in MetadataArgs /\ forecasts = <<>> /\ gw_exc = ""

NextWeather == GwValidate \/ GwFetch \/ GwExtract \/ ReadPeriods \/ ScanPeriods \/ GwFinish

SpecWeather == InitWeather /\ [][NextWeather]_vars

(***************************************************************************)
(* start_update_mode: checksums_handler and finalize_handler               *)
(***************************************************************************)
\* no extractor and no get_weather_data takes part
NoEngine ==
    /\ fn = "none" /\ stream = <<>> /\ plan = 0
    /\ max_day_periods = 0 /\ max_night_periods = 0 /\ max_buf = DefaultMaxBuf
    /\ InitLocals /\ NoCaller

\* filename.endswith(".new") and filename != "main_app.py.new"
Renamable(n) == n # "main_app.py.new"

\* final_name has a directory part
HasDir(n) == n = "lib/a.py.new"

\* a validation that only looks at the files it can read
FailedChecksReadable(listed, d) == {n \in listed : d[n] = "bad"}

\* the names of the list failed after the validation loop: the files that
\* cannot be read and the files whose hash is not the expected one
FailedChecks(listed, d) == {n \in listed : d[n] # "good"}

\* how the renaming of one file can go: "no" failure, safe_mkdirs raises, or
\* os.rename raises after the file at the final name has been removed
RenameFailures == {"no", "mkdir", "rename"}

\* checksums_handler: expected_checksums = request.data
Checksums ==
    /\ \E data \in SUBSET UpdateNames :
         /\ expected_checksums' = data
         /\ response' = [handler |-> "checksums", status |-> "", code |-> 200]
    /\ UNCHANGED <<disk, final>>
    /\ UNCHANGED <<inputs, source, pc, calls, prev, locals, result, exc, weather, button, cycle, startup>>

\* finalize_handler, from the request to the response
Finalize ==
    /\ \E status \in {"ok", "error", "invalid"}, fails \in [UpdateNames -> RenameFailures] :
         LET failed == FailedChecks(expected_checksums, disk)
             renamed == {n \in expected_checksums : Renamable(n)}
             broken == {n \in renamed : fails[n] # "no" /\ (fails[n] = "mkdir" => HasDir(n))}
         IN  /\ \A n \in UpdateNames :
                   fails[n] # "no" => (n \in renamed /\ (fails[n] = "mkdir" => HasDir(n)))
             /\ IF status = "invalid"
                THEN /\ response' = [handler |-> "finalize", status |-> status, code |-> 400]
                     /\ UNCHANGED <<expected_checksums, disk, final>>
                ELSE IF status = "error"
                THEN /\ disk' = [n \in UpdateNames |-> "missing"]
                     /\ expected_checksums' = {}
                     /\ response' = [handler |-> "finalize", status |-> status, code |-> 200]
                     /\ UNCHANGED final
                ELSE IF expected_checksums = {}
                THEN /\ response' = [handler |-> "finalize", status |-> status, code |-> 400]
                     /\ UNCHANGED <<expected_checksums, disk, final>>
                ELSE IF failed # {}
                THEN /\ disk' = [n \in UpdateNames |->
                                   IF n \in expected_checksums THEN "missing" ELSE disk[n]]
                     /\ response' = [handler |-> "finalize", status |-> status, code |-> 500]
                     /\ UNCHANGED <<expected_checksums, final>>
                ELSE /\ final' = [n \in UpdateNames |->
                                    IF n \notin renamed \/ fails[n] = "mkdir" THEN final[n]
                                    ELSE IF fails[n] = "rename" THEN "none"
                                    ELSE "new"]
                     /\ disk' = [n \in UpdateNames |->
                                   IF n \in expected_checksums /\ broken # {} THEN "missing"
                                   ELSE IF n \in renamed /\ fails[n] = "no" THEN "missing"
                                   ELSE disk[n]]
                     /\ response' = [handler |-> "finalize", status |-> status,
                                      code |-> IF broken # {} THEN 500 ELSE 200]
                     /\ UNCHANGED expected_checksums
    /\ UNCHANGED <<inputs, source, pc, calls, prev, locals, result, exc, weather, button, cycle, startup>>

\* update mode after the uploads: each file is there with the expected
\* content, with another content, or not at all
InitUpdate ==
    /\ NoEngine
    /\ expected_checksums = {}
    /\ disk \in [UpdateNames -> {"good", "bad", "missing"}]
    /\ final \in [UpdateNames -> {"old", "none"}]
    /\ response = NoResponse
    /\ NoButton /\ NoCycle /\ NoStartup

NextUpdate == Checksums \/ Finalize

SpecUpdate == InitUpdate /\ [][NextUpdate]_vars

(***************************************************************************)
(* setup_sw_handler and the top of the main loop of application_mode       *)
(***************************************************************************)
\* a handler that takes every release after a recorded press for a long one
LongEnoughAlways(duration) == TRUE

\* duration >= 2000
LongEnough(duration) == duration >= LongPress

\* time.ticks_diff(a, b): the difference of two readings of the wrapping
\* counter, in -TicksPeriod/2 .. TicksPeriod/2 - 1
ticks_diff(a, b) ==
    ((a - b + (TicksPeriod \div 2)) % TicksPeriod) - (TicksPeriod \div 2)

\* the longest time since a press that is told apart
HeldCap == TicksPeriod + LongPress

\* the clock advances by 1000 ms
Tick ==
    /\ ticks' = (ticks + 1) % TicksPeriod
    /\ held' = IF held = -1 THEN -1 ELSE IF held < HeldCap THEN held + 1 ELSE held
    /\ UNCHANGED <<press_time, long_press_triggered, start_update_requested, pin,
                   pending, loop_pc>>
    /\ UNCHANGED <<inputs, source, pc, calls, prev, locals, result, exc, weather, update, cycle, startup>>

\* the button is pressed or released (or bounces): an edge of the pin, whose
\* interrupt is served later
Edge ==
    /\ pending < 2
    /\ pin' = 1 - pin
    /\ pending' = pending + 1
    /\ UNCHANGED <<press_time, long_press_triggered, start_update_requested, ticks,
                   held, loop_pc>>
    /\ UNCHANGED <<inputs, source, pc, calls, prev, locals, result, exc, weather, update, cycle, startup>>

\* setup_sw_handler(pin), run for one edge
Handler ==
    /\ pending > 0
    /\ pending' = pending - 1
    /\ IF pin = 0
       THEN /\ press_time' = Some(ticks)
            /\ long_press_triggered' = FALSE
            /\ held' = 0
            /\ UNCHANGED start_update_requested
       ELSE IF press_time # NoneVal
       THEN /\ IF LongEnough(ticks_diff(ticks, press_time[1]))
               THEN long_press_triggered' = TRUE /\ start_update_requested' = TRUE
               ELSE UNCHANGED <<long_press_triggered, start_update_requested>>
            /\ press_time' = NoneVal
            /\ held' = -1
       ELSE UNCHANGED <<press_time, long_press_triggered, start_update_requested, held>>
    /\ UNCHANGED <<ticks, pin, loop_pc>>
    /\ UNCHANGED <<inputs, source, pc, calls, prev, locals, result, exc, weather, update, cycle, startup>>

\* the main loop of application_mode, one step at a time: the test of the
\* flag, its clearing, the call of start_update_mode, the rest of the iteration
Loop ==
    /\ \/ /\ loop_pc = "test"
          /\ loop_pc' = IF start_update_requested THEN "clear" ELSE "body"
          /\ UNCHANGED start_update_requested
       \/ /\ loop_pc = "clear"
          /\ start_update_requested' = FALSE
          /\ loop_pc' = "call"
       \/ /\ loop_pc = "call"
          /\ loop_pc' = "update"
          /\ UNCHANGED start_update_requested
       \/ /\ loop_pc = "body"
          /\ loop_pc' = "test"
          /\ UNCHANGED start_update_requested
    /\ UNCHANGED <<press_time, long_press_triggered, ticks, held, pin, pending>>
    /\ UNCHANGED <<inputs, source, pc, calls, prev, locals, result, exc, weather, update, cycle, startup>>

\* application_mode is entered with the button released and never pressed
InitButton ==
    /\ NoEngine /\ NoUpdate /\ NoCycle /\ NoStartup
    /\ press_time = NoneVal /\ long_press_triggered = FALSE
    /\ start_update_requested = FALSE
    /\ ticks \in 0..(TicksPeriod - 1) /\ held = -1 /\ pin = 1 /\ pending = 0
    /\ loop_pc = "test"

NextButton == Tick \/ Edge \/ Handler \/ Loop

SpecButton == InitButton /\ [][NextButton]_vars

(***************************************************************************)
(* The display cycle of application_mode                                   *)
(***************************************************************************)
\* the lists get_weather_data can return: up to MaxShown periods
ForecastLists == UNION {[1..n -> BOOLEAN] : n \in 0..MaxShown}

\* what the call connect_to_wifi() of the reconnection check can do: return a
\* true or a false value, or raise (it is called with the two arguments
\* ssid and password at start-up and with none here)
ReconnectOutcomes == {"ok", "failed", "raises"}

\* a cycle that shows any index below the cycle length
InRangeOfCycle(i, list) == TRUE

\* forecasts and (cycle_index - 1) < len(forecasts)
InRange(i, list) == list # <<>> /\ i < Len(list)

\* forecast.get("forecast2_short") of forecasts[i]; an index out of range
\* gives no forecast
Forecast2At(i, list) == IF 0 <= i /\ i < Len(list) THEN list[i + 1] ELSE FALSE

\* cycle_index += 1; if cycle_index >= cycle_length: cycle_index = 0
NextIndex(length) == IF cycle_index + 1 >= length THEN 0 ELSE cycle_index + 1

\* time.time() advances by one second
Second ==
    /\ loop_pc = "test"
    /\ switch_age' = IF switch_age < SwitchWait THEN switch_age + 1 ELSE switch_age
    /\ phase_age' = IF phase_age < ThenWait THEN phase_age + 1 ELSE phase_age
    /\ UNCHANGED <<app_forecasts, cycle_index, cycle_length, forecast_phase, forecast2,
                   index, shown>>
    /\ UNCHANGED <<inputs, source, pc, calls, prev, locals, result, exc, weather, update,
                   button, startup>>

\* one iteration of the main loop: the test of the flag, the refresh of the
\* forecasts when it is due (new_forecasts is what get_weather_data returns),
\* one step of the display cycle
Iterate ==
    /\ loop_pc = "test"
    /\ IF start_update_requested
       THEN /\ start_update_requested' = FALSE
            /\ loop_pc' = "update"
            /\ UNCHANGED cycle
       ELSE
        /\ UNCHANGED start_update_requested
        /\ \E due \in BOOLEAN, new_forecasts \in ForecastLists,
              up \in BOOLEAN, success \in ReconnectOutcomes :
           LET list == IF due THEN new_forecasts ELSE app_forecasts
               length == IF due THEN Len(new_forecasts) + 1 ELSE cycle_length
               after == IF due /\ new_forecasts = <<>> /\ shown # "off"
                        THEN "na" ELSE shown
           IN
           /\ app_forecasts' = list
           /\ cycle_length' = length
           /\ IF forecast_phase = 0 /\ switch_age >= SwitchWait
              THEN /\ switch_age' = 0 /\ phase_age' = 0
                   /\ IF cycle_index = 0
                      THEN /\ shown' = "sun"
                           /\ forecast_phase' = -1
                           /\ loop_pc' = IF ~up /\ success = "raises"
                                         THEN "reset" ELSE "test"
                           /\ UNCHANGED <<forecast2, index, cycle_index>>
                      ELSE IF InRange(cycle_index - 1, list)
                      THEN /\ index' = cycle_index - 1
                           /\ forecast2' = Forecast2At(cycle_index - 1, list)
                           /\ shown' = "period"
                           /\ forecast_phase' = IF forecast2' THEN 1 ELSE 3
                           /\ UNCHANGED <<cycle_index, loop_pc>>
                      ELSE /\ shown' = "na"
                           /\ forecast_phase' = -1
                           /\ UNCHANGED <<forecast2, index, cycle_index, loop_pc>>
              ELSE IF forecast_phase = 1 /\ phase_age >= ThenWait
              THEN /\ shown' = "then" /\ phase_age' = 0 /\ forecast_phase' = 2
                   /\ UNCHANGED <<forecast2, index, cycle_index, switch_age, loop_pc>>
              ELSE IF forecast_phase = 2 /\ phase_age >= SecondWait
              THEN /\ shown' = "second" /\ phase_age' = 0 /\ forecast_phase' = 3
                   /\ UNCHANGED <<forecast2, index, cycle_index, switch_age, loop_pc>>
              ELSE IF forecast_phase = 3 /\ phase_age >= RestWait
              THEN /\ forecast_phase' = 0
                   /\ cycle_index' = NextIndex(length)
                   /\ shown' = after
                   /\ UNCHANGED <<forecast2, index, switch_age, phase_age, loop_pc>>
              ELSE IF forecast_phase = -1 /\ switch_age >= SwitchWait
              THEN /\ forecast_phase' = 0
                   /\ cycle_index' = NextIndex(length)
                   /\ shown' = after
                   /\ UNCHANGED <<forecast2, index, switch_age, phase_age, loop_pc>>
              ELSE /\ shown' = after
                   /\ UNCHANGED <<forecast_phase, forecast2, index, cycle_index,
                                  switch_age, phase_age, loop_pc>>
    /\ UNCHANGED <<press_time, long_press_triggered, ticks, held, pin, pending>>
    /\ UNCHANGED <<inputs, source, pc, calls, prev, locals, result, exc, weather, update,
                   startup>>

\* application_mode reaches its main loop: the first fetch has given a list
\* (or none), the cycle starts with the first forecast; no update is requested
InitCycle ==
    /\ NoEngine /\ NoUpdate /\ NoStartup
    /\ press_time = NoneVal /\ long_press_triggered = FALSE
    /\ start_update_requested = FALSE
    /\ ticks = 0 /\ held = -1 /\ pin = 1 /\ pending = 0
    /\ loop_pc = "test"
    /\ app_forecasts \in ForecastLists
    /\ cycle_length = Len(app_forecasts) + 1
    /\ cycle_index = 1
    /\ forecast_phase = 0 /\ forecast2 = FALSE
    /\ switch_age = 0 /\ phase_age = ThenWait
    /\ index = -1 /\ shown = "start"

NextCycle == Second \/ Iterate

SpecCycle == InitCycle /\ [][NextCycle]_vars

\* the loop keeps running and the clock advances
SpecCycleLive == SpecCycle /\ WF_vars(Second) /\ WF_vars(Iterate)

(***************************************************************************)
(* The start-up: the Wi-Fi loop and the choice of the mode                 *)
(***************************************************************************)
\* while (wifi_current_attempt < WIFI_MAX_ATTEMPTS)
MoreAttempts(attempt) == attempt < WIFI_MAX_ATTEMPTS

\* the link comes up or goes down by itself, when the network can connect
LinkChange ==
    /\ boot_pc \in {"connect", "select"}
    /\ network = "may"
    /\ connected' = ~connected
    /\ UNCHANGED <<boot_pc, wifi_current_attempt, attempts, network, has_latlon, count>>
    /\ UNCHANGED <<inputs, source, pc, calls, prev, locals, result, exc, weather, update,
                   button, cycle>>

\* the test of the while loop and one iteration: connect_to_wifi, then
\* is_connected_to_wifi()
Attempt ==
    /\ boot_pc = "connect"
    /\ IF MoreAttempts(wifi_current_attempt)
       THEN /\ attempts' = attempts + 1
            /\ connected' \in (IF network = "never" THEN {FALSE} ELSE BOOLEAN)
            /\ IF connected'
               THEN boot_pc' = "select" /\ UNCHANGED wifi_current_attempt
               ELSE /\ wifi_current_attempt' = wifi_current_attempt + 1
                    /\ UNCHANGED boot_pc
       ELSE /\ boot_pc' = "select"
            /\ UNCHANGED <<wifi_current_attempt, attempts, connected>>
    /\ UNCHANGED <<network, has_latlon, count>>
    /\ UNCHANGED <<inputs, source, pc, calls, prev, locals, result, exc, weather, update,
                   button, cycle>>

\* after the loop: application_mode when connected (after a look-up of the
\* location when the settings have none), else the countdown to setup mode
Select ==
    /\ boot_pc = "select"
    /\ \E found \in BOOLEAN :
         IF connected /\ (has_latlon \/ found)
         THEN boot_pc' = "app" /\ has_latlon' = TRUE /\ UNCHANGED count
         ELSE boot_pc' = "countdown" /\ count' = CountdownFrom /\ UNCHANGED has_latlon
    /\ UNCHANGED <<wifi_current_attempt, attempts, connected, network>>
    /\ UNCHANGED <<inputs, source, pc, calls, prev, locals, result, exc, weather, update,
                   button, cycle>>

\* for count in range(5, 0, -1): ... time.sleep(1); then setup_mode()
Countdown ==
    /\ boot_pc = "countdown"
    /\ IF count > 0
       THEN count' = count - 1 /\ UNCHANGED boot_pc
       ELSE boot_pc' = "setup" /\ UNCHANGED count
    /\ UNCHANGED <<wifi_current_attempt, attempts, connected, network, has_latlon>>
    /\ UNCHANGED <<inputs, source, pc, calls, prev, locals, result, exc, weather, update,
                   button, cycle>>

\* the settings are valid; the loop is about to start
InitStartup ==
    /\ NoEngine /\ NoUpdate /\ NoButton /\ NoCycle
    /\ boot_pc = "connect" /\ wifi_current_attempt = 1 /\ attempts = 0
    /\ connected = FALSE
    /\ network \in {"never", "may"}
    /\ has_latlon \in BOOLEAN
    /\ count = 0

NextStartup == LinkChange \/ Attempt \/ Select \/ Countdown

SpecStartup == InitStartup /\ [][NextStartup]_vars

(***************************************************************************)
(* What the claims speak of                                                *)
(***************************************************************************)
\* the call has returned or raised
Done == pc = "done"
\* the Byte Source ended the stream before its last byte
Truncated == eos /\ pos < Len(stream)
\* every category counter has reached its cap
CapsMet == day_count >= max_day_periods /\ night_count >= max_night_periods

\* extract_first_json_string_value_stream on s delivered one byte at a time:
\* <<result, exc>>.  After the k-th read the buffer is the last max_buf bytes
\* of the first k bytes of s; the first read after which the search matches
\* ends the call.
StringByteAtATime(s) ==
    LET after(k) == StringSearch(TrimTail(Slice(s, 0, k), MaxBuf))
        hits == {k \in 1..Len(s) : after(k)[1] = "done"}
    IN  IF hits = {} THEN <<NoneVal, "">>
        ELSE <<after(Min(hits))[2], after(Min(hits))[3]>>

\* the values of the "id" keys of document s from offset p on, in order: after
\* each "id": the text between the next two quotes
RECURSIVE IdValues(_, _)
IdValues(s, p) ==
    LET i == Find(s, IdKey, p)
        a == Find(s, Quote, i + Len(IdKey))
        e == Find(s, Quote, a + 1)
    IN  IF i = -1 THEN <<>>
        ELSE IF a = -1 THEN <<>>
        ELSE IF e = -1 THEN <<>>
        ELSE <<Slice(s, a + 1, e)>> \o IdValues(s, e + 1)

\* the first "id" value of s that contains "/stations/", <<>> when there is none
FirstStationValue(s) ==
    LET v == IdValues(s, 0)
        c == {n \in DOMAIN v : HasStationsPath(v[n])}
    IN  IF c = {} THEN <<>> ELSE <<v[Min(c)]>>

\* the offsets of s at which the bytes "id": stand before a quoted value that is
\* closed and contains "/stations/"
StationCandidates(s) ==
    {i \in 0..(Len(s) - 1) :
        /\ StartsAt(s, IdKey, i)
        /\ LET a == Find(s, Quote, i + Len(IdKey))
               e == Find(s, Quote, a + 1)
           IN  a # -1 /\ e # -1 /\ HasStationsPath(Slice(s, a + 1, e))}

DayRecords(out) == {n \in DOMAIN out : out[n].isDaytime}
NightRecords(out) == {n \in DOMAIN out : ~out[n].isDaytime}
Least(a, b) == IF a < b THEN a ELSE b

\* the place in the stream of the object a record of a ForecastDoc comes from
ObjectOf(r) == CHOOSE n \in 1..5 : r.name = <<<<"A", "B", "C", "D", "E">>[n]>>
InStreamOrder(out) ==
    \A m, n \in DOMAIN out : m < n => ObjectOf(out[m]) < ObjectOf(out[n])

\* the offset in ForecastDoc(k) just after the closing brace of its n-th object
ObjectEnd(k, n) == 1 + Len(PeriodsMarker) + Len(PeriodObjects(k, n))

\* the record of the n-th object of ForecastDoc(k)
RecordOf(k, n) ==
    [name |-> <<<<"A", "B", "C", "D", "E">>[n]>>, shortForecast |-> <<>>,
     temperature |-> NoneVal, isDaytime |-> k[n]]

\* the records of the first n objects of ForecastDoc(k), each category cut at its cap
RECURSIVE CappedRecords(_, _, _, _)
CappedRecords(k, n, maxd, maxn) ==
    IF n = 0 THEN <<>>
    ELSE LET e == CappedRecords(k, n - 1, maxd, maxn)
             room == IF k[n] THEN Cardinality(DayRecords(e)) < maxd
                     ELSE Cardinality(NightRecords(e)) < maxn
         IN  IF room THEN Append(e, RecordOf(k, n)) ELSE e

Today ==
    [name |-> <<"T", "o", "d", "a", "y">>, shortForecast |-> <<"S", "u", "n", "n", "y">>,
     temperature |-> <<75>>, isDaytime |-> TRUE]
Tonight ==
    [name |-> <<"T", "o", "n", "i", "g", "h", "t">>,
     shortForecast |-> <<"C", "l", "e", "a", "r">>,
     temperature |-> <<55>>, isDaytime |-> FALSE]

(***************************************************************************)
(* Claims                                                                  *)
(***************************************************************************)

\* C1: extract_first_json_string_value_stream returns the same result however the
\* stream is cut into reads: the result of every run that was given the whole
\* stream is the result of the run that is given it one byte at a time.
C1_ChunkInvariance ==
    (fn = "string" /\ Done /\ ~Truncated)
        => <<result, exc>> = StringByteAtATime(stream)

\* C2: in a document whose first "id" value lacks "/stations/" and a later one
\* has it, fetch_first_station_id returns the station code of the first "id"
\* value that contains "/stations/", however the document is cut into reads.
C2_SkipsRejected ==
    LET v == IdValues(stream, 0)
        f == FirstStationValue(stream)
    IN  (/\ fn = "station" /\ Done /\ ~Truncated
         /\ v # <<>> /\ ~HasStationsPath(v[1]) /\ Decodable(v[1])
         /\ f # <<>>)
            => result = Some(AfterLastSlash(f[1]))

\* C3: the list returned for a document with K_day daytime and K_night nighttime
\* objects holds exactly min(K_day, max_day_periods) daytime records and
\* min(K_night, max_night_periods) nighttime records, in stream order.
C3_CapInvariant ==
    \A k \in Kinds :
        (/\ fn = "periods" /\ Done /\ ~Truncated /\ stream = ForecastDoc(k)
         /\ max_buf = DefaultMaxBuf)
            => /\ Cardinality(DayRecords(result))
                    = Least(Cardinality({n \in DOMAIN k : k[n]}), max_day_periods)
               /\ Cardinality(NightRecords(result))
                    = Least(Cardinality({n \in DOMAIN k : ~k[n]}), max_night_periods)
               /\ InStreamOrder(result)

\* C4 (as claimed): whenever every category counter has reached its cap,
\* extract_forecast_periods_stream has returned: it performs no further read.
C4_ReturnedWhenCapsMet ==
    (fn = "periods" /\ calls > 0 /\ CapsMet) => Done

\* C4 (amended): as soon as an object has been classified and every category
\* counter has reached its cap, extract_forecast_periods_stream returns what it
\* has collected, in that very step and without a read; while the loop goes on
\* after an object, some counter is below its cap; and nothing is read or
\* appended once it has returned.
C4_EarlyTermination ==
    /\ [][(fn = "periods" /\ pc = "scan" /\ pc' # "read" /\ exc' = "")
            => /\ CapsMet' <=> pc' = "done"
               /\ pc' = "done" => (result' = periods' /\ pos' = pos /\ buf' = buf)]_vars
    /\ [][(fn = "periods" /\ pc = "scan" /\ pc' = "read")
            => (day_count' = day_count /\ night_count' = night_count)]_vars
    /\ [][(fn = "periods" /\ Done /\ calls' = calls)
            => (result' = result /\ pos' = pos)]_vars

\* C4 witness: the call has returned on its caps with an object left in the stream
C4_Witness ==
    /\ fn = "periods" /\ Done /\ ~eos /\ CapsMet /\ max_day_periods = 1
    /\ stream = ForecastDoc(<<TRUE, FALSE, TRUE>>)
    /\ result = <<RecordOf(<<TRUE, FALSE, TRUE>>, 1), RecordOf(<<TRUE, FALSE, TRUE>>, 2)>>

\* C5: if the stream ends inside a period object, the list returned holds exactly
\* the records of the objects closed before it (each category cut at its cap),
\* and no error is raised.
C5_IncompleteStream ==
    \A k \in Kinds : \A n \in 0..(Len(k) - 1) :
        (/\ fn = "periods" /\ Done /\ eos /\ stream = ForecastDoc(k)
         /\ max_buf = DefaultMaxBuf
         /\ pos > ObjectEnd(k, n) + 1 /\ pos < ObjectEnd(k, n + 1))
            => /\ exc = ""
               /\ result = CappedRecords(k, n, max_day_periods, max_night_periods)

\* C6: the scenario document of spec.md, with no white space after its colons,
\* delivered in 7-byte reads with caps day = 1 and night = 1, yields the records
\* Today and Tonight.
C6_ScenarioCompact ==
    (/\ fn = "periods" /\ Done /\ stream = ScenarioCompact /\ plan = 7
     /\ max_day_periods = 1 /\ max_night_periods = 1 /\ max_buf = DefaultMaxBuf)
        => result = <<Today, Tonight>>

\* The same scenario with the array written "periods": [ (one space, the marker
\* the code looks for) yields Today and Tonight; written with no white space it
\* yields the empty list however it is delivered.
ScenarioSpacedExtracted ==
    /\ (/\ fn = "periods" /\ Done /\ stream = ScenarioSpaced /\ plan = 7
        /\ max_day_periods = 1 /\ max_night_periods = 1 /\ max_buf = DefaultMaxBuf)
           => (result = <<Today, Tonight>> /\ exc = "")
    /\ (fn = "periods" /\ Done /\ stream = ScenarioCompact)
           => (result = <<>> /\ exc = "")

\* C7: a second run of an extractor on the same document with the same chunking
\* returns what the first returned.
C7_Idempotent ==
    (fn \in {"periods", "string", "number"} /\ calls = 2 /\ Done)
        => <<result, exc>> = prev

\* C7 witness: a second call has returned records after a first one did
C7_Witness ==
    /\ fn = "periods" /\ calls = 2 /\ Done /\ Len(result) >= 2 /\ prev[1] = result

\* C8: after every append-and-trim cycle the buffer holds at most max_buf bytes,
\* and before the trim at most max_buf bytes plus one read.
C8_BoundedBuffer ==
    /\ [](Len(buf) <= max_buf)
    /\ [][calls' = calls => Len(buf) + (pos' - pos) <= max_buf + ReadRequest]_vars

\* C8 witness: a trim has cut the buffer to max_buf bytes
C8_Witness ==
    /\ fn = "periods" /\ Len(buf) = max_buf /\ pos > max_buf /\ pc = "scan"

\* C9: the trim of extract_forecast_periods_stream removes only bytes before the
\* cursor idx: of the bytes at or after idx, and of the chunk appended, none is
\* discarded.
C9_TrimKeepsUnconsumed ==
    [][(fn = "periods" /\ pc = "read" /\ pc' = "scan")
         => Len(buf') >= Len(buf) - idx + (pos' - pos)]_vars

\* C10: a single-value extractor returns None, raising nothing, when the Byte
\* Source signals the end of the stream; and it returns None or raises nothing
\* but for a match: never when the bytes delivered hold no key with a
\* well-formed value, or only a quoted value whose closing quote never came.
C10_NotFound ==
    /\ (fn \in {"string", "number", "station"} /\ Done /\ eos)
          => (result = NoneVal /\ exc = "")
    /\ (fn = "string" /\ Done /\ SearchString(Delivered, StringKey, 1) = <<>>)
          => (result = NoneVal /\ exc = "")
    /\ (fn = "number" /\ Done /\ SearchNumber(Delivered, NumberPatternKey) = <<>>)
          => (result = NoneVal /\ exc = "")
    /\ (fn = "station" /\ Done /\ StationCandidates(Delivered) = {})
          => result = NoneVal

\* C10 witness: the stream ended after a quoted value was opened and never closed
C10_Witness ==
    /\ fn = "string" /\ Done /\ eos /\ result = NoneVal
    /\ stream = StringKey \o <<":", "\"">> \o <<"x">>
    /\ pos = Len(stream)

\* a period that stands for "data unavailable"
IsPlaceholder(p) == p.name = NA /\ p.temperature = NoneVal /\ p.isDaytime = NoneVal

\* C11: get_weather_data always returns a non-empty list of periods and lets no
\* exception out; when the metadata could not be refreshed or the request
\* raised (the extraction was never started), when the extraction raised, and
\* when it returned the empty list, the list is a single placeholder period
\* with name "N/A", temperature None and isDaytime None.
C11_NeverCrashes ==
    gw_pc = "returned" =>
        /\ gw_exc = ""
        /\ Len(forecasts) >= 1
        /\ \A n \in DOMAIN forecasts :
             {"name", "temperature", "isDaytime"} \subseteq DOMAIN forecasts[n]
        /\ (pc # "done" \/ exc # "" \/ result = <<>>)
              => (Len(forecasts) = 1 /\ IsPlaceholder(forecasts[1]))

\* C11 witness: the extraction returned the empty list and the placeholder of
\* the inner handler came back
C11_Witness ==
    /\ gw_pc = "returned" /\ pc = "done" /\ exc = "" /\ result = <<>>
    /\ Len(forecasts) = 1 /\ IsPlaceholder(forecasts[1])
    /\ "forecast1" \in DOMAIN forecasts[1]

\* C12: extract_first_number_stream_generic returns, however the stream is cut
\* into reads, the value of the complete numeric token that follows the first
\* occurrence of the key in the stream: the value found when the whole stream
\* is searched at once.
C12_NumberChunkInvariance ==
    (fn = "number" /\ Done /\ ~Truncated)
        => result = NumberSearch(stream)[2]

\* C13: during one call each closed period object of the stream is turned into
\* a record at most once: no two records of the output list come from the same
\* object of the document.
C13_OneRecordPerObject ==
    \A k \in Kinds :
        (fn = "periods" /\ stream = ForecastDoc(k) /\ max_buf = DefaultMaxBuf)
            => \A m, n \in DOMAIN periods :
                   m # n => ObjectOf(periods[m]) # ObjectOf(periods[n])

\* the cursor's position in the stream: the bytes already discarded from the
\* front of the buffer (the buffer is the end of the bytes delivered) plus idx
Cursor == pos - Len(buf) + idx

\* C14: within one call of extract_forecast_periods_stream the cursor's position
\* in the stream never decreases.
C14_CursorMonotone ==
    [][(fn = "periods" /\ max_buf = DefaultMaxBuf /\ calls' = calls)
         => Cursor' >= Cursor]_vars

\* What an inner-loop iteration started in the present state finds: the index
\* the anchor is searched from (idx, or the end of the marker when the marker is
\* found in this iteration; -1 when the marker is missing), the anchor, the
\* opening and the closing brace.
ScanFrom ==
    IF in_periods THEN idx
    ELSE IF Find(buf, PeriodsMarker, idx) = -1 THEN -1
    ELSE Find(buf, PeriodsMarker, idx) + Len(PeriodsMarker)
ScanAnchor == IF ScanFrom = -1 THEN -1 ELSE Find(buf, NumberKey, ScanFrom)
ScanStart == IF ScanAnchor = -1 THEN -1 ELSE StartObj(buf, ScanFrom, ScanAnchor)
ScanEnd == IF ScanStart = -1 THEN -1 ELSE find_balanced_braces_stream(buf, ScanStart)
\* the anchor is in the buffer and its object is not closed in it
ObjectPending == ScanAnchor # -1 /\ (ScanStart = -1 \/ ScanEnd = -1)
\* an index of the buffer as an offset of the stream
InStream(i) == pos - Len(buf) + i

\* C15: when the anchor "number": is found and the closing brace of its object
\* is not yet in the buffer, the iteration changes neither the counters nor the
\* output list and leaves idx where the anchor was searched from; after the
\* next read the same anchor is found again and its object is examined from
\* the same opening brace of the stream.
C15_IncompleteRetried ==
    /\ [][(fn = "periods" /\ pc = "scan" /\ ObjectPending)
            => /\ pc' = "read" /\ idx' = ScanFrom
               /\ day_count' = day_count /\ night_count' = night_count
               /\ periods' = periods]_vars
    /\ [][(fn = "periods" /\ pc = "read" /\ in_periods /\ ObjectPending
            /\ ScanStart # -1 /\ pc' = "scan")
            => /\ InStream(ScanAnchor)' = InStream(ScanAnchor)
               /\ InStream(ScanStart)' = InStream(ScanStart)]_vars

\* C16: after every closed object that does not end the extraction idx is one
\* past the object's closing brace, whether its record was appended or skipped;
\* a record is appended at the end of the list or the list is left as it is,
\* and a skipped record changes neither counter.
C16_ForwardProgress ==
    [][(fn = "periods" /\ pc = "scan" /\ pc' = "scan")
         => /\ ScanEnd # -1 /\ idx' = ScanEnd + 1
            /\ \/ Len(periods') = Len(periods) + 1
                    /\ SubSeq(periods', 1, Len(periods)) = periods
               \/ /\ periods' = periods
                  /\ day_count' = day_count /\ night_count' = night_count]_vars

\* C16 witness: the second daytime object was skipped at the cap of one and the
\* cursor stands just after its closing brace
C16_Witness ==
    /\ fn = "periods" /\ pc = "scan" /\ max_buf = DefaultMaxBuf
    /\ stream = ForecastDoc(<<TRUE, TRUE, FALSE>>)
    /\ max_day_periods = 1 /\ day_count = 1 /\ night_count = 0
    /\ periods = <<RecordOf(<<TRUE, TRUE, FALSE>>, 1)>>
    /\ idx = ObjectEnd(<<TRUE, TRUE, FALSE>>, 2)

\* C17: every call of an extractor on a Byte Source that ends its stream
\* returns (or raises); in extract_forecast_periods_stream an inner-loop
\* iteration that does not leave the loop strictly increases idx, which stays
\* within the buffer.
C17_Termination ==
    /\ (pc \in {"read", "scan"}) ~> Done
    /\ [][(fn = "periods" /\ pc = "scan" /\ pc' = "scan")
            => (idx' > idx /\ idx' <= Len(buf))]_vars

\* C17 witness: a call has returned after the Byte Source signalled the end of a
\* stream longer than one read
C17_Witness ==
    /\ fn = "station" /\ Done /\ eos /\ pos = Len(stream) /\ pos > ReadRequest
    /\ plan = ReadRequest

\* the index just after the first array-open marker of "periods" in s, -1
\* when s has none
MarkerEnd(s) ==
    IF Find(s, PeriodsMarker, 0) = -1 THEN -1
    ELSE Find(s, PeriodsMarker, 0) + Len(PeriodsMarker)

\* the records of the objects of s that start after the marker
RecordsAfterMarker(s) ==
    {PeriodRecord(Slice(s, a, find_balanced_braces_stream(s, a) + 1)) :
        a \in {i \in MarkerEnd(s)..(Len(s) - 1) :
                 /\ MarkerEnd(s) # -1
                 /\ At(s, i) = "{"
                 /\ find_balanced_braces_stream(s, i) # -1}}

\* C18: once the marker has been found in_periods stays true until the call
\* ends, no record is produced while the marker has not been found, and every
\* record is built from an object that lies after the marker in the stream
\* (with the default max_buf, which trims nothing of these documents).
C18_OneTimeAnchor ==
    /\ [][(fn = "periods" /\ in_periods /\ calls' = calls) => in_periods']_vars
    /\ [](fn = "periods" /\ ~in_periods => periods = <<>>)
    /\ [](fn = "periods" /\ max_buf = DefaultMaxBuf
            => \A k \in 1..Len(periods) : periods[k] \in RecordsAfterMarker(stream))

\* the offset in the stream of the first byte of the buffer of
\* fetch_first_station_id (the buffer is a suffix of the bytes delivered)
BufStart == pos - Len(buf)

\* the first "id" value of buffer b, when it is complete: <<index of the key,
\* index of the closing quote, value>>, or <<>>
FirstIdValue(b) ==
    LET i == Find(b, IdKey, 0)
        sq == IF i = -1 THEN -1 ELSE Find(b, Quote, i + Len(IdKey))
        eq == IF sq = -1 THEN -1 ELSE Find(b, Quote, sq + 1)
    IN  IF eq = -1 THEN <<>> ELSE <<i, eq, Slice(b, sq + 1, eq)>>

\* the buffer searched in the step that moves the Byte Source from pos to pos'
Searched == TrimTail(buf \o Slice(stream, pos, pos'), max_buf)

\* the step rejects a value: a read of fetch_first_station_id whose buffer
\* holds a complete, decodable first "id" value without "/stations/"
RejectStep ==
    /\ fn = "station" /\ pc = "read" /\ pos' > pos
    /\ FirstIdValue(Searched) # <<>>
    /\ Decodable(FirstIdValue(Searched)[3])
    /\ ~HasStationsPath(FirstIdValue(Searched)[3])

\* C19: when fetch_first_station_id rejects an "id" value the buffer is cut to
\* start just after that value's closing quote and holds every byte delivered
\* after it; the start of the buffer never moves back in the stream during a
\* call, so no later search meets the rejected "id" again.
C19_RejectedNeverRematched ==
    /\ [][RejectStep =>
            /\ pc' = "read"
            /\ BufStart' = (pos' - Len(Searched)) + FirstIdValue(Searched)[2] + 1
            /\ BufStart' > (pos' - Len(Searched)) + FirstIdValue(Searched)[1]
            /\ buf' = Slice(stream, BufStart', pos')]_vars
    /\ [][(fn = "station" /\ calls' = calls) => BufStart' >= BufStart]_vars
    /\ [](fn = "station" => buf = Slice(stream, BufStart, pos))

\* C19 witness: the first "id" value was rejected, the buffer started again
\* after it, and the second value, a station, has been returned
C19_Witness ==
    /\ fn = "station" /\ Done
    /\ stream = IdKey \o <<"\"", "a", "\"">> \o IdKey \o Quote \o StationsPath \o <<"K", "\"">>
    /\ BufStart = Len(IdKey) + 3
    /\ result = Some(<<"K">>)

\* the number of records of list ps whose isDaytime is d
CountOf(ps, d) == Cardinality({k \in 1..Len(ps) : ps[k].isDaytime = d})

\* C20: day_count and night_count are the numbers of daytime and of night
\* records in the output list and never exceed their caps; a record is appended
\* only when the counter of its category is below its cap, and that counter,
\* and no other, then grows by one.
C20_CounterInvariant ==
    /\ [](fn = "periods" =>
            /\ day_count = CountOf(periods, TRUE)
            /\ night_count = CountOf(periods, FALSE)
            /\ day_count <= max_day_periods
            /\ night_count <= max_night_periods)
    /\ [][(fn = "periods" /\ calls' = calls /\ periods' # periods) =>
            /\ Len(periods') = Len(periods) + 1
            /\ IF periods'[Len(periods')].isDaytime
               THEN /\ day_count < max_day_periods
                    /\ day_count' = day_count + 1 /\ night_count' = night_count
               ELSE /\ night_count < max_night_periods
                    /\ night_count' = night_count + 1 /\ day_count' = day_count]_vars
    /\ [][(fn = "periods" /\ calls' = calls /\ periods' = periods) =>
            (day_count' = day_count /\ night_count' = night_count)]_vars

\* C20 witness: with caps of one and one, the first daytime record and the
\* night record were accepted and the second daytime record was not
C20_Witness ==
    /\ fn = "periods" /\ Done /\ max_buf = DefaultMaxBuf
    /\ stream = ForecastDoc(<<TRUE, TRUE, FALSE>>)
    /\ max_day_periods = 1 /\ max_night_periods = 1
    /\ day_count = 1 /\ night_count = 1
    /\ result = <<RecordOf(<<TRUE, TRUE, FALSE>>, 1), RecordOf(<<TRUE, TRUE, FALSE>>, 3)>>

\* the record of FieldObject(v)
FieldRecord(v) ==
    [name |-> IF v.name THEN <<"N">> ELSE <<>>,
     shortForecast |-> IF v.short THEN <<"S">> ELSE <<>>,
     temperature |-> IF v.temp = "75" THEN <<75>> ELSE NoneVal,
     isDaytime |-> (v.day = "true")]

\* the record of the second object of FieldDoc(v, plain)
SecondRecord(plain) ==
    [name |-> <<"B">>, shortForecast |-> <<>>, temperature |-> NoneVal,
     isDaytime |-> ~plain]

\* C21: with the default caps, the run over a document whose first object
\* lacks any of name, shortForecast and temperature (or holds a temperature
\* that is not a run of digits) returns the record of that object first, with
\* "" or None for what is lacking and the other fields as they stand in the
\* text, and the record of the object after it later in the list; no record of
\* anything else is returned and nothing is raised.
C21_AbsentFields ==
    \A v \in FieldVariants, plain \in BOOLEAN :
        (/\ fn = "periods" /\ Done /\ stream = FieldDoc(v, plain)
         /\ max_day_periods = DefaultMaxDay /\ max_night_periods = DefaultMaxNight)
        => /\ exc = ""
           /\ Len(result) >= 2
           /\ result[1] = FieldRecord(v)
           /\ \E k \in 2..Len(result) : result[k] = SecondRecord(plain)
           /\ \A k \in 1..Len(result) : result[k] \in {FieldRecord(v), SecondRecord(plain)}

\* C21 witness: the first object has neither name nor shortForecast and a
\* negative temperature; both records have been returned
C21_Witness ==
    /\ fn = "periods" /\ Done
    /\ stream = FieldDoc([name |-> FALSE, short |-> FALSE, temp |-> "-5", day |-> "true"], FALSE)
    /\ result = <<[name |-> <<>>, shortForecast |-> <<>>, temperature |-> NoneVal,
                   isDaytime |-> TRUE], SecondRecord(FALSE)>>

\* the nesting depth of text after index i, counted from start
Depth(text, start, i) ==
    Cardinality({j \in start..i : At(text, j) = "{"})
      - Cardinality({j \in start..i : At(text, j) = "}"})

\* the indices at which a closing brace brings the depth back to zero after
\* an opening brace
ClosedAt(text, start) ==
    {i \in start..(Len(text) - 1) :
        /\ At(text, i) = "}"
        /\ Depth(text, start, i) = 0
        /\ \E j \in start..(i - 1) : At(text, j) = "{"}

\* the indices after an opening brace at which the depth is zero
ZeroAt(text, start) ==
    {i \in start..(Len(text) - 1) :
        /\ Depth(text, start, i) = 0
        /\ \E j \in start..i : At(text, j) = "{"}

\* C22: find_balanced_braces_stream(text, start) is the smallest index from
\* start on at which a closing brace brings the nesting depth back to zero
\* after an opening brace, and -1 when there is none; when text[start] is an
\* opening brace (as at the call of line 1646) it is the smallest index at
\* which the depth is zero, the closing brace of the object that starts there.
C22_BraceMatching ==
    (fn = "braces" /\ Done) =>
        /\ result = Some(IF ClosedAt(stream, idx) = {} THEN -1
                         ELSE Min(ClosedAt(stream, idx)))
        /\ (idx < Len(stream) /\ At(stream, idx) = "{") =>
              result = Some(IF ZeroAt(stream, idx) = {} THEN -1
                            ELSE Min(ZeroAt(stream, idx)))

\* C22 witness: {{}x} from 0 is closed by its own brace at 4, not by the
\* nested object's brace at 2
C22_Witness ==
    /\ fn = "braces" /\ Done /\ stream = <<"{", "{", "}", "x", "}">> /\ idx = 0
    /\ result = Some(4)

\* the opening braces of the buffer before index n
BracesBefore(n) == {j \in 0..(n - 1) : At(buf, j) = "{"}
\* the opening braces of the buffer at or after index n
BracesFrom(n) == {j \in n..(Len(buf) - 1) : At(buf, j) = "{"}

\* the object start the claim describes for the anchor of this iteration:
\* the nearest opening brace before the anchor when it lies at or after the
\* cursor, otherwise the first one at or after the anchor, -1 when none
ClaimedStart ==
    IF BracesBefore(ScanAnchor) # {} /\ Max(BracesBefore(ScanAnchor)) >= ScanFrom
    THEN Max(BracesBefore(ScanAnchor))
    ELSE IF BracesFrom(ScanAnchor) # {} THEN Min(BracesFrom(ScanAnchor))
    ELSE -1

\* the opening brace of the object the anchor of this iteration lies in: the
\* last opening brace before the anchor that is not closed before it, -1 when
\* the buffer holds none
OwnBrace ==
    LET open == {j \in BracesBefore(ScanAnchor) :
                    LET e == find_balanced_braces_stream(buf, j)
                    IN  e = -1 \/ e > ScanAnchor}
    IN  IF open = {} THEN -1 ELSE Max(open)

\* the text of the closed object that starts at index a of the buffer
ObjectText(a) == Slice(buf, a, find_balanced_braces_stream(buf, a) + 1)

\* an iteration of the inner loop that finds an anchor
AnchorStep == fn = "periods" /\ pc = "scan" /\ ScanAnchor # -1

\* C23, the selection: when there is no object start the extractor waits for
\* more data and idx stays where the anchor was searched from; an object that
\* is closed and goes on is left at the closing brace that matches the
\* claimed start, and a record appended is the record of the object that
\* starts there.
C23_Selection ==
    [][AnchorStep =>
         IF ClaimedStart = -1
         THEN pc' = "read" /\ idx' = ScanFrom /\ periods' = periods
         ELSE /\ pc' = "scan" => idx' = find_balanced_braces_stream(buf, ClaimedStart) + 1
              /\ periods' # periods =>
                    periods'[Len(periods')] = PeriodRecord(ObjectText(ClaimedStart))]_vars

\* C23: the selection is as described, and when the opening brace of the
\* record the anchor lies in is in the buffer at or after the cursor, the
\* record appended is the record of the object that starts at that brace.
C23_ObjectStart ==
    /\ C23_Selection
    /\ [][(AnchorStep /\ OwnBrace # -1 /\ OwnBrace >= ScanFrom /\ periods' # periods)
            => /\ find_balanced_braces_stream(buf, OwnBrace) # -1
               /\ periods'[Len(periods')] = PeriodRecord(ObjectText(OwnBrace))]_vars

\* C24: no decoding error leaves an extractor: a matched value that is not
\* valid UTF-8 is treated as not found, and extract_forecast_periods_stream
\* returns the records it has accepted.
C24_EncodingContained ==
    /\ exc = ""
    /\ (fn = "periods" /\ Done) => result = periods

\* C25: an object without an isDaytime field, or with a value that is neither
\* true nor false, gives a record with isDaytime False that is counted as a
\* night record: with caps of one and one it fills the night cap, a second
\* such object is not appended, and a daytime object after it ends the
\* extraction before the end of the stream.
C25_MissingIsDaytimeIsNight ==
    \A v \in FieldVariants, plain \in BOOLEAN :
        (/\ fn = "periods" /\ Done /\ stream = FieldDoc(v, plain)
         /\ v.day \in {"none", "null"})
        => /\ Len(result) >= 1
           /\ result[1] = FieldRecord(v) /\ ~result[1].isDaytime
           /\ night_count >= 1 /\ night_count <= max_night_periods
           /\ day_count = Cardinality({k \in 1..Len(result) : result[k].isDaytime})
           /\ (max_night_periods = 1 /\ plain)
                 => (result = <<FieldRecord(v)>> /\ eos)
           /\ (max_night_periods = 1 /\ ~plain)
                 => (result = <<FieldRecord(v), SecondRecord(FALSE)>> /\ ~eos)

\* C25 witness: the object without isDaytime filled the night cap of one and
\* the daytime object after it ended the extraction early
C25_Witness ==
    /\ fn = "periods" /\ Done /\ ~eos
    /\ stream = FieldDoc([name |-> TRUE, short |-> TRUE, temp |-> "75", day |-> "none"], FALSE)
    /\ max_day_periods = 1 /\ max_night_periods = 1
    /\ night_count = 1 /\ day_count = 1
    /\ result = <<[name |-> <<"N">>, shortForecast |-> <<"S">>, temperature |-> <<75>>,
                   isDaytime |-> FALSE], SecondRecord(FALSE)>>

\* the step is a run of finalize_handler on a request with status "ok"
FinalizeOkStep == response'.handler = "finalize" /\ response'.status = "ok"

\* C26: finalize_handler with status "ok" changes the file at a final name
\* only when every listed file was there with its expected SHA-256; when a
\* listed file mismatches or cannot be read no final name changes, every
\* listed upload is removed and the response is 500; without checksums the
\* response is 400 and no file is touched; main_app.py is never replaced.
C26_FinalizeAllOrNothing ==
    [][FinalizeOkStep =>
         /\ final' # final =>
               (expected_checksums # {} /\ \A n \in expected_checksums : disk[n] = "good")
         /\ (\E n \in expected_checksums : disk[n] # "good") =>
               /\ final' = final
               /\ \A n \in expected_checksums : disk'[n] = "missing"
               /\ response'.code = 500
         /\ expected_checksums = {} =>
               (response'.code = 400 /\ disk' = disk /\ final' = final)
         /\ final'["main_app.py.new"] = final["main_app.py.new"]
         /\ response'.code = 200 =>
               /\ \A n \in expected_checksums : Renamable(n) => final'[n] = "new"
               /\ disk'["main_app.py.new"] = disk["main_app.py.new"]]_vars

\* C26 witness: the three uploads were listed and verified; the two files
\* other than main_app.py have been renamed and main_app.py.new is still there
C26_Witness ==
    /\ response = [handler |-> "finalize", status |-> "ok", code |-> 200]
    /\ expected_checksums = UpdateNames
    /\ final = [n \in UpdateNames |-> IF n = "main_app.py.new" THEN "old" ELSE "new"]
    /\ disk = [n \in UpdateNames |-> IF n = "main_app.py.new" THEN "good" ELSE "missing"]

\* a run of setup_sw_handler that finds the button released
ReleaseStep == pending' < pending /\ pin = 1

\* C27: start_update_requested becomes set only in a run of the handler that
\* finds the button released, with a press recorded at least 2000 ms earlier
\* and no release handled since (the record is erased by every release); a
\* release with no recorded press, or less than 2000 ms after the recorded
\* one, leaves the flag as it was; the main loop reaches the call of
\* start_update_mode only from the clearing of the flag, which it reaches only
\* from a test that found the flag set, whatever the handler does in between.
C27_UpdateOnlyAfterLongPress ==
    [][ /\ (start_update_requested' /\ ~start_update_requested)
            => /\ ReleaseStep
               /\ press_time # NoneVal /\ held >= LongPress
               /\ press_time' = NoneVal
        /\ (ReleaseStep /\ (press_time = NoneVal \/ held < LongPress))
            => UNCHANGED start_update_requested
        /\ (loop_pc' = "clear" /\ loop_pc # "clear")
            => loop_pc = "test" /\ start_update_requested
        /\ (loop_pc' = "call" /\ loop_pc # "call")
            => loop_pc = "clear" /\ ~start_update_requested'
        /\ (loop_pc' = "update" /\ loop_pc # "update")
            => loop_pc = "call"
      ]_vars

\* start_update_mode has been called after a long press, and a second long
\* press was released between the clearing of the flag and the call
C27_Witness ==
    /\ loop_pc = "update" /\ long_press_triggered /\ start_update_requested
    /\ press_time = NoneVal

\* the step of the display cycle that reads forecasts[cycle_index - 1]
IndexStep == forecast_phase = 0 /\ forecast_phase' \in {1, 3}

\* C28: forecast_phase is always one of -1, 0, 1, 2, 3; every step that
\* indexes the forecast list does so at cycle_index - 1, which is at least 0
\* and below the length of the list as it is at that step (also right after a
\* refresh has put a shorter or an empty list in place); phase 1 is entered
\* only when the forecast just read has a second part, and phase 2 only
\* while that second part is kept.
C28_CycleSafety ==
    /\ [](forecast_phase \in {-1, 0, 1, 2, 3})
    /\ [][ /\ (IndexStep \/ index' # index)
               => /\ index' = cycle_index - 1
                  /\ 0 <= index' /\ index' < Len(app_forecasts')
           /\ (forecast_phase' = 1 /\ forecast_phase # 1)
               => /\ IndexStep
                  /\ forecast2' /\ forecast2' = app_forecasts'[index' + 1]
           /\ (forecast_phase' = 2 /\ forecast_phase # 2)
               => forecast_phase = 1 /\ forecast2 /\ forecast2'
         ]_vars

\* a refresh has put a shorter list in place in the middle of a cycle: the
\* cycle stands past its end and shows "N/A" in place of a period
C28_Witness ==
    /\ shown = "na" /\ forecast_phase = -1 /\ index >= 0
    /\ app_forecasts # <<>> /\ cycle_index - 1 >= Len(app_forecasts)

\* C29: while the loop runs, the clock advances and no update is requested,
\* forecast_phase is 0 again and again, cycle_index is 0 again and again, the
\* sunrise/sunset screen is shown again and again, and every period that
\* stays in the forecast list is shown again and again.
C29_CycleLiveness ==
    /\ []<>(forecast_phase = 0)
    /\ []<>(cycle_index = 0)
    /\ []<>(shown = "sun" /\ forecast_phase = -1)
    /\ \A k \in 1..MaxShown :
         []<>((shown = "period" /\ index = k - 1) \/ Len(app_forecasts) < k)

\* C30: when the network never connects, connect_to_wifi has been called
\* WIFI_MAX_ATTEMPTS times by the time the loop is left, and the device goes
\* to setup mode and never to application_mode; the loop is left by the
\* first attempt after which is_connected_to_wifi() is true.
C30_BoundedWifiRetry ==
    /\ []((network = "never" /\ boot_pc \in {"select", "countdown", "setup"})
           => attempts = WIFI_MAX_ATTEMPTS)
    /\ [](network = "never" => boot_pc # "app")
    /\ [][(attempts' # attempts /\ connected') => boot_pc' = "select"]_vars

====
